---- MODULE Spec2Model ----
(***************************************************************************)
(* Earley recogniser and lazy parse-tree enumerator of parsey.             *)
(*                                                                         *)
(* The chart engine (src/lib.rs build_parse_state, src/state/item.rs,      *)
(* src/state/stateset.rs), the recogniser (src/lib.rs recognise) and the   *)
(* tree extractor (src/ast.rs) are modelled as one state machine: a        *)
(* grammar and an input are chosen, the chart is built item by item, the   *)
(* recogniser inspects the last set, and trees are pulled one at a time.   *)
(***************************************************************************)
EXTENDS Integers, Sequences, FiniteSets, TLC

(***************************************************************************)
(* Bounds of the model.                                                    *)
(***************************************************************************)
\* longest input string that is tried
MaxLen == 3
\* number of calls of next() made on the tree iterator
MaxTrees == 3
\* deepest nesting of calls of next() (the size of the call stack)
MaxDepth == 12
\* longest rule name given to Rule::new
MaxName == 2
\* longest rule body and largest rule list given to a call on its own
MaxBody == 2
MaxRules == 2
\* the longest list of sub-tokenizers of a chain fed on its own
MaxSubs == 2

(***************************************************************************)
(* Symbols and rules (src/grammar/symbol.rs, src/grammar/rule.rs).         *)
(* A character is a string of length one.                                  *)
(***************************************************************************)
SymRule(n) == [t |-> "Rule", name |-> n, c |-> "", cs |-> {}]

SymLiteral(ch) == [t |-> "Literal", name |-> "", c |-> ch, cs |-> {}]

SymOneOf(S) == [t |-> "OneOf", name |-> "", c |-> "", cs |-> S]

MkRule(n, b) == [name |-> n, body |-> b]

\* Symbol::rule_name / Symbol::is_terminal
is_terminal(s) == s.t # "Rule"

\* Rule::get: Some(symbol) iff index < body.len() (index is 0-based)
HasSym(rule, index) == index < Len(rule.body)

SymAt(rule, index) == rule.body[index + 1]

Digits == {"0", "1", "2", "3", "4", "5", "6", "7", "8", "9"}

(***************************************************************************)
(* The grammars that are tried, each with the alphabet its inputs are      *)
(* drawn from.  ARITH, EMPTY, ALMOST_EMPTY and LOOP are the test data of   *)
(* src/lib.rs; the others exercise nullable symbols, ambiguity, repeated   *)
(* rules and undefined names.                                              *)
(***************************************************************************)
ARITH ==
  << MkRule("Sum", <<SymRule("Sum"), SymOneOf({"+", "-"}), SymRule("Product")>>),
     MkRule("Sum", <<SymRule("Product")>>),
     MkRule("Product", <<SymRule("Product"), SymOneOf({"*", "/"}), SymRule("Factor")>>),
     MkRule("Product", <<SymRule("Factor")>>),
     MkRule("Factor", <<SymLiteral("("), SymRule("Sum"), SymLiteral(")")>>),
     MkRule("Factor", <<SymRule("Number")>>),
     MkRule("Number", <<SymOneOf(Digits), SymRule("Number")>>),
     MkRule("Number", <<SymOneOf(Digits)>>) >>

EMPTY == << MkRule("Empty", <<>>) >>

ALMOST_EMPTY ==
  << MkRule("Rule", <<SymLiteral("R"), SymLiteral("u"), SymLiteral("l"),
                      SymLiteral("e"), SymRule("Empty")>>),
     MkRule("Empty", <<>>) >>

LOOP ==
  << MkRule("A", <<>>),
     MkRule("A", <<SymRule("B")>>),
     MkRule("B", <<SymRule("A")>>) >>

\* the same nullable symbol twice in one body
TWICE == << MkRule("A", <<SymRule("B"), SymRule("B")>>), MkRule("B", <<>>) >>

\* two different nullable symbols in one body
PAIR ==
  << MkRule("A", <<SymRule("B"), SymRule("C")>>),
     MkRule("B", <<>>),
     MkRule("C", <<>>) >>

\* a rule that starts with a nullable symbol and is not nullable itself
WAIT ==
  << MkRule("S", <<SymRule("A"), SymLiteral("x")>>),
     MkRule("A", <<SymRule("B"), SymLiteral("y")>>),
     MkRule("B", <<>>) >>

\* a child of several possible lengths followed by a terminal
TAIL ==
  << MkRule("S", <<SymRule("A"), SymLiteral("x")>>),
     MkRule("A", <<SymLiteral("x")>>),
     MkRule("A", <<SymLiteral("x"), SymLiteral("x")>>) >>

\* a child of several possible lengths followed by a different terminal
MISS ==
  << MkRule("S", <<SymRule("A"), SymLiteral("y")>>),
     MkRule("A", <<SymLiteral("x")>>),
     MkRule("A", <<SymLiteral("x"), SymLiteral("x")>>) >>

\* a child followed by a nullable symbol
TRAIL ==
  << MkRule("S", <<SymRule("A"), SymRule("B")>>),
     MkRule("A", <<SymLiteral("x")>>),
     MkRule("B", <<>>) >>

\* ambiguous and left recursive, finitely many trees per input
AMBIG ==
  << MkRule("S", <<SymRule("S"), SymLiteral("+"), SymRule("S")>>),
     MkRule("S", <<SymLiteral("x")>>) >>

\* an empty rule declared before a rule of the same name whose body leads
\* back to the name
ORDER ==
  << MkRule("A", <<>>),
     MkRule("A", <<SymRule("B"), SymLiteral("x")>>),
     MkRule("B", <<SymRule("A"), SymLiteral("x")>>) >>

\* two alternatives of the start symbol for "x": the one completed first in
\* the chart ends in a nullable symbol
EARLIEST ==
  << MkRule("S", <<SymRule("A"), SymRule("B")>>),
     MkRule("S", <<SymRule("C")>>),
     MkRule("A", <<SymLiteral("x")>>),
     MkRule("B", <<>>),
     MkRule("C", <<SymRule("D")>>),
     MkRule("D", <<SymRule("E")>>),
     MkRule("E", <<SymLiteral("x")>>) >>

\* the same rule declared twice
DUP == << MkRule("S", <<SymLiteral("x")>>), MkRule("S", <<SymLiteral("x")>>) >>

\* a reference to a name that no rule has
UNDEF ==
  << MkRule("S", <<SymLiteral("x"), SymRule("U")>>),
     MkRule("S", <<SymLiteral("x")>>) >>

Grammars ==
  << [rules |-> ARITH,        alphabet |-> {"1", "+", "%", "("},
      extra |-> {<<"1", "+", "2">>, <<"1", "%", "2">>, <<"(", "1", ")">>}],
     [rules |-> EMPTY,        alphabet |-> {" "}, extra |-> {}],
     [rules |-> ALMOST_EMPTY, alphabet |-> {"R", "e"},
      extra |-> {<<"R", "u", "l", "e">>}],
     [rules |-> LOOP,         alphabet |-> {"x"}, extra |-> {}],
     [rules |-> TWICE,        alphabet |-> {"x"}, extra |-> {}],
     [rules |-> PAIR,         alphabet |-> {"x"}, extra |-> {}],
     [rules |-> WAIT,         alphabet |-> {"x", "y"}, extra |-> {}],
     [rules |-> TAIL,         alphabet |-> {"x"}, extra |-> {}],
     [rules |-> MISS,         alphabet |-> {"x", "y"}, extra |-> {}],
     [rules |-> TRAIL,        alphabet |-> {"x"}, extra |-> {}],
     [rules |-> AMBIG,        alphabet |-> {"x", "+"},
      extra |-> {<<"x", "+", "x", "+", "x">>}],
     [rules |-> ORDER,        alphabet |-> {"x"}, extra |-> {}],
     [rules |-> EARLIEST,     alphabet |-> {"x"}, extra |-> {}],
     [rules |-> DUP,          alphabet |-> {"x"}, extra |-> {}],
     [rules |-> UNDEF,        alphabet |-> {"x"}, extra |-> {}] >>

\* every string over the alphabet A of length at most n
Strings(A, n) == UNION {[1..k -> A] : k \in 0..n}

(***************************************************************************)
(* Grammar (the rule list plus the nullable names).                        *)
(***************************************************************************)
\* Grammar::start_symbol: the name of the first rule
start_symbol(rules) == rules[1].name

\* Grammar::get_rules_by_name that stops at the first rule with the name
RECURSIVE get_rules_by_nameFirst(_, _)
get_rules_by_nameFirst(rules, name) ==
  IF rules = <<>> THEN <<>>
  ELSE IF Head(rules).name = name
       THEN <<Head(rules)>>
       ELSE get_rules_by_nameFirst(Tail(rules), name)

\* Grammar::get_rules_by_name that returns the rules last declared first
RECURSIVE get_rules_by_nameLastFirst(_, _)
get_rules_by_nameLastFirst(rules, name) ==
  IF rules = <<>> THEN <<>>
  ELSE IF Head(rules).name = name
       THEN get_rules_by_nameLastFirst(Tail(rules), name) \o <<Head(rules)>>
       ELSE get_rules_by_nameLastFirst(Tail(rules), name)

\* Grammar::get_rules_by_name: all rules with the name, in declared order
RECURSIVE get_rules_by_name(_, _)
get_rules_by_name(rules, name) ==
  IF rules = <<>> THEN <<>>
  ELSE IF Head(rules).name = name
       THEN <<Head(rules)>> \o get_rules_by_name(Tail(rules), name)
       ELSE get_rules_by_name(Tail(rules), name)

\* Rule::is_nullable that passes over the terminals of the body
is_nullableLoose(rule, nullable_symbols) ==
  \A i \in DOMAIN rule.body :
     \/ is_terminal(rule.body[i])
     \/ rule.body[i].name = rule.name
     \/ rule.body[i].name \in nullable_symbols

\* Rule::is_nullable without the exception for the rule's own name
is_nullableStrict(rule, nullable_symbols) ==
  IF rule.body = <<>> THEN TRUE
  ELSE IF \E i \in DOMAIN rule.body : is_terminal(rule.body[i]) THEN FALSE
  ELSE \A i \in DOMAIN rule.body : rule.body[i].name \in nullable_symbols

\* Rule::is_nullable(nullable_symbols)
is_nullable(rule, nullable_symbols) ==
  IF rule.body = <<>> THEN TRUE
  ELSE IF \E i \in DOMAIN rule.body : is_terminal(rule.body[i]) THEN FALSE
  ELSE \A i \in DOMAIN rule.body :
         \/ rule.body[i].name = rule.name
         \/ rule.body[i].name \in nullable_symbols

\* one full pass over the rule list, inserting the locally nullable names
RECURSIVE NullablePass(_, _)
NullablePass(rules, N) ==
  IF rules = <<>> THEN N
  ELSE NullablePass(Tail(rules),
                    IF is_nullable(Head(rules), N) THEN N \cup {Head(rules).name} ELSE N)

\* the nullable set of a grammar: passes are repeated until one adds nothing
RECURSIVE NullableFrom(_, _)
NullableFrom(rules, N) ==
  LET M == NullablePass(rules, N)
  IN IF M = N THEN N ELSE NullableFrom(rules, M)

NullableSet(rules) == NullableFrom(rules, {})

\* Grammar::rule_is_nullable
rule_is_nullable(rules, name) == name \in NullableSet(rules)

(***************************************************************************)
(* Items and state sets (src/state/item.rs, src/state/stateset.rs).        *)
(* An item holds its rule by value: the derived equality of Item compares  *)
(* the rule's name and body, the start and the progress.                   *)
(***************************************************************************)
MkItem(rule, start, progress) == [rule |-> rule, start |-> start, progress |-> progress]

\* Item::from_rules with the order of the rules reversed
from_rulesReversed(rules, start) ==
  [i \in DOMAIN rules |-> MkItem(rules[Len(rules) + 1 - i], start, 0)]

\* Item::from_rules
from_rules(rules, start) == [i \in DOMAIN rules |-> MkItem(rules[i], start, 0)]

\* Item::is_complete
is_complete(item) == item.progress >= Len(item.rule.body)

\* Item::next_name: Some(name) iff the next symbol is a rule reference
HasNextName(item) ==
  /\ HasSym(item.rule, item.progress)
  /\ SymAt(item.rule, item.progress).t = "Rule"

next_name(item) == SymAt(item.rule, item.progress).name

\* Item::advanced with the progress marker moved two places
advancedTwice(item) == [item EXCEPT !.progress = @ + 2]

\* Item::advanced
advanced(item) == [item EXCEPT !.progress = @ + 1]

\* Vec::contains
Contains(items, item) == \E i \in DOMAIN items : items[i] = item

\* StateSet::new that stores the items last first
StateSetNewReversed(items) ==
  [items |-> [i \in DOMAIN items |-> items[Len(items) + 1 - i]], next |-> 0]

\* StateSet::new
StateSetNew(items) == [items |-> items, next |-> 0]

\* StateSet::add that puts the new items in front of the list
StateSetAddFront(items, new_items) ==
  SelectSeq(new_items, LAMBDA x : ~Contains(items, x)) \o items

\* StateSet::add without the membership test
StateSetAddAll(items, new_items) == items \o new_items

\* StateSet::add that tests membership in the set as it was before the call
StateSetAddOnce(items, new_items) ==
  items \o SelectSeq(new_items, LAMBDA x : ~Contains(items, x))

\* StateSet::add, on the item list
RECURSIVE StateSetAdd(_, _)
StateSetAdd(items, new_items) ==
  IF new_items = <<>> THEN items
  ELSE StateSetAdd(IF Contains(items, Head(new_items))
                   THEN items
                   ELSE Append(items, Head(new_items)),
                   Tail(new_items))

\* the filter_map of Item::complete: the items of the target set that wait
\* for the completed name, each advanced by one, in stored order
RECURSIVE AdvancedWaiting(_, _)
AdvancedWaiting(items, completed) ==
  IF items = <<>> THEN <<>>
  ELSE LET rest == AdvancedWaiting(Tail(items), completed)
       IN IF HasNextName(Head(items)) /\ next_name(Head(items)) = completed
          THEN <<advanced(Head(items))>> \o rest
          ELSE rest

\* Item::complete that goes through the target set once more after its items
\* were appended
completeAgain(self, current_items, prev_state) ==
  LET target == IF self.start = Len(prev_state)
                THEN current_items
                ELSE prev_state[self.start + 1].items
      once == StateSetAdd(current_items, AdvancedWaiting(target, self.rule.name))
  IN IF self.start = Len(prev_state)
     THEN StateSetAdd(once, AdvancedWaiting(once, self.rule.name))
     ELSE once

\* Item::complete: the new item list of the current set.  prev_state is the
\* list of the sets before the current one.
complete(self, current_items, prev_state) ==
  LET target == IF self.start = Len(prev_state)
                THEN current_items
                ELSE prev_state[self.start + 1].items
  IN StateSetAdd(current_items, AdvancedWaiting(target, self.rule.name))

\* a terminal test that lets every character pass
AcceptsAny(sym, ch) == TRUE

\* the terminal test of the two scan branches of Item::parse
Accepts(sym, ch) ==
  IF sym.t = "Literal" THEN ch = sym.c ELSE ch \in sym.cs

\* Item::scan: TRUE iff the advanced item is returned
scan(item, inp, pos) ==
  /\ pos < Len(inp)
  /\ Accepts(SymAt(item.rule, item.progress), inp[pos + 1])

(***************************************************************************)
(* State.                                                                  *)
(***************************************************************************)
VARIABLES
  grammar,           \* the rule list of the grammar
  input,             \* the input characters
  overflow_checks,   \* TRUE: arithmetic overflow panics; FALSE: it wraps
  pc,                \* position of the program
  parse_state,       \* the chart: a sequence of state sets
  current_position,  \* loop variable of build_parse_state
  to_add,            \* scan outputs of the current position
  outcome,           \* "Ok" or "Err": the result of build_parse_state
  failure,           \* the Err value of build_parse_state
  recognised,        \* the answer of recognise
  transposed,        \* the transposed chart shared by the tree iterators
  iter,              \* the tree iterator
  stack,             \* the active calls of next(), innermost last
  trees,             \* the trees yielded so far
  last,              \* outcome of the latest call of next()
  previous,          \* the results of the run before this one, if any
  call,              \* a call of a constructor or of a function on its own
  returned,          \* what that call returned
  tokenizer,         \* the tokenizer handed to tokenize, with its state
  tok_chars,         \* chars: the characters of the input of tokenize
  tok_progress,      \* progress: loop variable of tokenize
  token_start,       \* where the token in progress starts
  span,              \* start_line, end_line, start_char, end_char of tokenize
  result,            \* the tokens completed so far
  last_result,       \* what the latest feed returned
  tokenized,         \* what tokenize returned
  tok_pc,            \* position of tokenize
  state_set,         \* a state set used on its own
  new_items,         \* the argument of the latest add on it
  got,               \* what the latest next on it returned, <<>> for None
  was_none           \* TRUE once a next on it has returned None

parserVars == <<grammar, input, overflow_checks, pc, parse_state, current_position,
                to_add, outcome, failure, recognised, transposed, iter, stack, trees,
                last, previous>>

callVars == <<call, returned>>

tokVars == <<tokenizer, tok_chars, tok_progress, token_start, span, result, last_result,
             tokenized, tok_pc>>

setVars == <<state_set, new_items, got, was_none>>

auxVars == <<callVars, tokVars, setVars>>

vars == <<parserVars, auxVars>>

chartVars == <<parse_state, current_position, to_add, outcome, failure>>

treeVars == <<transposed, iter, stack, trees, last>>

NoIter == [kind |-> "absent"]

\* no run was made before this one
NoRun == [kind |-> "none"]

\* no call is made on its own
NoCall == [fn |-> "none"]

\* the call has not returned
NotReturned == [kind |-> "pending"]

\* no tokenizer is built
NoTokenizer == [kind |-> "none"]

\* tokenize has not returned
NotTokenized == [kind |-> "pending", tokens |-> <<>>, rest |-> <<>>]

\* no state set is used on its own
NoStateSet == [items |-> <<>>, next |-> 0]

SetIdle ==
  /\ state_set = NoStateSet
  /\ new_items = <<>>
  /\ got = <<>>
  /\ was_none = FALSE

\* tokenize is not called
TokIdle ==
  /\ tokenizer = NoTokenizer
  /\ tok_chars = <<>>
  /\ tok_progress = 0
  /\ token_start = 0
  /\ span = [start_line |-> 0, end_line |-> 0, start_char |-> 0, end_char |-> 0]
  /\ result = <<>>
  /\ last_result = "Pending"
  /\ tokenized = NotTokenized
  /\ tok_pc = "idle"

Init ==
  /\ \E g \in DOMAIN Grammars :
       /\ grammar = Grammars[g].rules
       /\ input \in Strings(Grammars[g].alphabet, MaxLen) \cup Grammars[g].extra
  /\ overflow_checks \in BOOLEAN
  /\ pc = "head"
  /\ parse_state = <<StateSetNew(from_rules(get_rules_by_name(grammar, start_symbol(grammar)), 0))>>
  /\ current_position = 0
  /\ to_add = <<>>
  /\ outcome = "pending"
  /\ failure = <<>>
  /\ recognised = FALSE
  /\ transposed = <<>>
  /\ iter = NoIter
  /\ stack = <<>>
  /\ trees = <<>>
  /\ last = "unused"
  /\ previous = NoRun
  /\ TokIdle
  /\ call = NoCall
  /\ returned = NotReturned
  /\ SetIdle

(***************************************************************************)
(* build_parse_state (src/lib.rs).                                         *)
(***************************************************************************)
current_state == parse_state[Len(parse_state)]

prev_state == SubSeq(parse_state, 1, Len(parse_state) - 1)

\* the item StateSet::next yields, when it yields one
Yielded == current_state.items[current_state.next + 1]

HasYielded == current_state.next < Len(current_state.items)

SetCurrent(items) ==
  parse_state' = [parse_state EXCEPT ![Len(parse_state)] =
                    [items |-> items, next |-> current_state.next + 1]]

\* &input[current_position..input.len()]
ErrSuffixLate(inp, pos) == SubSeq(inp, pos + 1, Len(inp))

\* &input[current_position - 1..input.len()]
ErrSuffix(inp, pos) == SubSeq(inp, pos, Len(inp))

\* top of the for loop: no set for this position, return Err
BuildFail ==
  /\ pc = "head"
  /\ current_position <= Len(input)
  /\ current_position >= Len(parse_state)
  /\ failure' = ErrSuffix(input, current_position)
  /\ outcome' = "Err"
  /\ pc' = "built"
  /\ UNCHANGED <<grammar, input, overflow_checks, previous, auxVars, parse_state, current_position,
                 to_add, recognised, treeVars>>

\* top of the for loop: enter the body with an empty to_add
BuildEnter ==
  /\ pc = "head"
  /\ current_position <= Len(input)
  /\ current_position < Len(parse_state)
  /\ to_add' = <<>>
  /\ pc' = "set"
  /\ UNCHANGED <<grammar, input, overflow_checks, previous, auxVars, parse_state, current_position,
                 outcome, failure, recognised, treeVars>>

\* the for loop is over: return Ok(parse_state)
BuildOk ==
  /\ pc = "head"
  /\ current_position > Len(input)
  /\ outcome' = "Ok"
  /\ pc' = "built"
  /\ UNCHANGED <<grammar, input, overflow_checks, previous, auxVars, parse_state, current_position,
                 to_add, failure, recognised, treeVars>>

\* Item::parse, Symbol::Rule branch
Predict ==
  /\ pc = "set"
  /\ HasYielded
  /\ HasNextName(Yielded)
  /\ LET name == next_name(Yielded)
         predicted == StateSetAdd(current_state.items,
                                  from_rules(get_rules_by_name(grammar, name),
                                             current_position))
     IN SetCurrent(IF rule_is_nullable(grammar, name)
                   THEN complete(Yielded, predicted, prev_state)
                   ELSE predicted)
  /\ UNCHANGED <<grammar, input, overflow_checks, previous, auxVars, pc, current_position, to_add,
                 outcome, failure, recognised, treeVars>>

\* Item::parse, Symbol::Literal and Symbol::OneOf branches
Scan ==
  /\ pc = "set"
  /\ HasYielded
  /\ HasSym(Yielded.rule, Yielded.progress)
  /\ is_terminal(SymAt(Yielded.rule, Yielded.progress))
  /\ SetCurrent(current_state.items)
  /\ to_add' = IF scan(Yielded, input, current_position)
               THEN Append(to_add, advanced(Yielded))
               ELSE to_add
  /\ UNCHANGED <<grammar, input, overflow_checks, previous, auxVars, pc, current_position,
                 outcome, failure, recognised, treeVars>>

\* Item::parse, completion branch
Complete ==
  /\ pc = "set"
  /\ HasYielded
  /\ ~HasSym(Yielded.rule, Yielded.progress)
  /\ SetCurrent(complete(Yielded, current_state.items, prev_state))
  /\ UNCHANGED <<grammar, input, overflow_checks, previous, auxVars, pc, current_position, to_add,
                 outcome, failure, recognised, treeVars>>

\* StateSet::next returns None: the while loop ends, the next set is pushed
\* when a scan matched, and the for loop moves to the next position
EndOfSet ==
  /\ pc = "set"
  /\ ~HasYielded
  /\ LET exhausted == [parse_state EXCEPT ![Len(parse_state)].next = @ + 1]
     IN parse_state' = IF to_add # <<>>
                       THEN Append(exhausted, StateSetNew(to_add))
                       ELSE exhausted
  /\ current_position' = current_position + 1
  /\ pc' = "head"
  /\ UNCHANGED <<grammar, input, overflow_checks, previous, auxVars, to_add, outcome, failure,
                 recognised, treeVars>>

(***************************************************************************)
(* recognise (src/lib.rs).                                                 *)
(***************************************************************************)
\* the filter of recognise without the test of the start position
AcceptingAnyStart(item) ==
  /\ item.rule.name = start_symbol(grammar)
  /\ is_complete(item)

\* the filter of recognise on the items of the last set
Accepting(item) ==
  /\ item.rule.name = start_symbol(grammar)
  /\ item.start = 0
  /\ is_complete(item)

LastSet == parse_state[Len(parse_state)]

Recognise ==
  /\ pc = "built"
  /\ recognised' = IF outcome = "Ok"
                   THEN \E i \in DOMAIN LastSet.items : Accepting(LastSet.items[i])
                   ELSE FALSE
  /\ pc' = "answered"
  /\ UNCHANGED <<grammar, input, overflow_checks, previous, auxVars, chartVars, treeVars>>

(***************************************************************************)
(* Trees and the tree iterator (src/ast.rs, src/utils.rs).                 *)
(***************************************************************************)
Leaf(ch) == [leaf |-> TRUE, c |-> ch, name |-> "", children |-> <<>>]

Internal(n, ch) == [leaf |-> FALSE, c |-> "", name |-> n, children |-> ch]

\* Node::len
RECURSIVE NodeLen(_)
NodeLen(node) ==
  IF node.leaf THEN 1
  ELSE LET RECURSIVE Sum(_)
           Sum(k) == IF k = 0 THEN 0 ELSE Sum(k - 1) + NodeLen(node.children[k])
       IN Sum(Len(node.children))

\* the complete items of one set that start at s, as (rule, end) pairs
RECURSIVE CompleteFrom(_, _, _)
CompleteFrom(items, s, end) ==
  IF items = <<>> THEN <<>>
  ELSE LET rest == CompleteFrom(Tail(items), s, end)
       IN IF is_complete(Head(items)) /\ Head(items).start = s
          THEN <<[rule |-> Head(items).rule, end |-> end]>> \o rest
          ELSE rest

\* transpose, one row: sets k.. of the chart, filtered for start s
RECURSIVE TransposeRow(_, _, _)
TransposeRow(state, k, s) ==
  IF k > Len(state) THEN <<>>
  ELSE CompleteFrom(state[k].items, s, k - 1) \o TransposeRow(state, k + 1, s)

\* transpose: row s + 1 holds the completed items that start at s
transpose(state) == [i \in 1..Len(state) |-> TransposeRow(state, 1, i - 1)]

\* Uncertain::Known / Uncertain::Unknown.  The bound is a usize: a negative
\* v stands for the wrapped value 2^64 + v.
Known(e) == [known |-> TRUE, v |-> e]

Unknown(e) == [known |-> FALSE, v |-> e]

\* usize subtraction a - b overflows
SubOverflows(a, b) == a >= 0 /\ a < b

\* Uncertain::sub with an Unknown right-hand side (lowerbound_length)
UncertainSub(end, b) == Unknown(end.v - b)

\* lowerbound_length: one character per remaining symbol
lowerbound_length(n) == n

\* the filter on the end position in NodeIterator::new
EndFits(e, end) ==
  IF end.known THEN e = end.v
  ELSE IF end.v < 0 THEN TRUE ELSE e <= end.v

RECURSIVE Candidates(_, _, _)
Candidates(row, name, end) ==
  IF row = <<>> THEN <<>>
  ELSE LET rest == Candidates(Tail(row), name, end)
       IN IF Head(row).rule.name = name /\ EndFits(Head(row).end, end)
          THEN <<Head(row)>> \o rest
          ELSE rest

\* a candidate order that depends on whether the program ran before
ReverseOnce(s) == IF previous = NoRun THEN [i \in DOMAIN s |-> s[Len(s) + 1 - i]] ELSE s

\* Vec::reverse
Reverse(s) == [i \in DOMAIN s |-> s[Len(s) + 1 - i]]

Front(s) == SubSeq(s, 1, Len(s) - 1)

\* Vec::pop of the candidate stack into current: an Option is a sequence
\* of at most one element
PopCurrent(it) ==
  IF it.candidates = <<>>
  THEN [it EXCEPT !.current = <<>>]
  ELSE [it EXCEPT !.current = <<it.candidates[Len(it.candidates)]>>,
                  !.candidates = Front(it.candidates)]

\* std::iter::empty(), the sub-iterator of a leaf
EmptyIter == [kind |-> "empty"]

\* NodeIterator::new (start is a valid row of the transposed chart ps)
NodeIteratorNew(ps, name, start, end) ==
  PopCurrent([kind |-> "node",
              current |-> <<>>,
              candidates |-> Reverse(Candidates(ps[start + 1], name, end)),
              progress |-> <<>>,
              start |-> start,
              end |-> end])

\* the terminal branches without the comparison with the input
LeafForAny(sym, ch) == <<Leaf(ch)>>

\* the terminal branches of NodeIterator::next: the leaf that is pushed, as
\* an Option (a Literal pushes its own character, a OneOf the input's)
LeafFor(sym, ch) ==
  IF sym.t = "Literal"
  THEN IF ch = sym.c THEN <<Leaf(sym.c)>> ELSE <<>>
  ELSE IF ch \in sym.cs THEN <<Leaf(ch)>> ELSE <<>>

\* length: the summed length of the nodes on the progress stack
RECURSIVE length(_)
length(progress) ==
  IF progress = <<>> THEN 0
  ELSE NodeLen(Head(progress).node) + length(Tail(progress))

Push(it, node, sub) ==
  [it EXCEPT !.progress = Append(@, [node |-> node, iter |-> sub])]

\* the latest call of next(): "some" and "none" are its two results,
\* "panic" is a failed index or a checked overflow, "overflow" is unbounded
\* recursion (next() was entered on an iterator state on which a call of
\* next() is already active), "depth" means the call stack of the model is
\* full
NoNode == Leaf("")

(***************************************************************************)
(* NodeIterator::next and NodeIterator::step.  The recursion of next()     *)
(* through the sub-iterators is kept as an explicit call stack: each frame *)
(* is one active call of next() with its iterator (self), the iterator     *)
(* state at entry, and the position inside next():                         *)
(*   "loop"      at the top of the loop of next()                          *)
(*   "wait_new"  waiting for nodes.next() of a fresh sub-iterator          *)
(*   "step"      at the top of the loop of step()                          *)
(*   "wait_step" waiting for iter.next() inside step()                     *)
(*   "stepped"   step() has returned                                       *)
(* after tells where step() was called from: "emit" (a node is about to be *)
(* returned) or "loop" (a child failed and the loop goes on).              *)
(***************************************************************************)
Frame(it) == [it |-> it, entry |-> it, at |-> "loop", after |-> "loop", node |-> NoNode]

Top == stack[Len(stack)]

SetTop(f) == [stack EXCEPT ![Len(stack)] = f]

\* fields of the running call of next()
TopCurrent == Top.it.current[1]

TopBody == TopCurrent.rule.body

TopSymbol == TopBody[Len(Top.it.progress) + 1]

\* let rest = &body[self.progress.len() + 1..]
TopRest == Len(TopBody) - (Len(Top.it.progress) + 1)

\* child_start and child_end of NodeIterator::next
child_start == Top.it.start + length(Top.it.progress)

IsLastSymbol == Len(Top.it.progress) = Len(TopBody) - 1

child_end ==
  IF IsLastSymbol THEN Top.it.end
  ELSE UncertainSub(Top.it.end, lowerbound_length(TopRest))

AtSymbol ==
  /\ pc = "running"
  /\ Top.at = "loop"
  /\ Top.it.current # <<>>
  /\ Len(Top.it.progress) < Len(TopBody)

\* the subtraction of child_end overflows and overflow is checked
EndPanics == ~IsLastSymbol /\ SubOverflows(Top.it.end.v, lowerbound_length(TopRest))
             /\ overflow_checks

\* parse_state[start] in NodeIterator::new or self.input[child_start] is
\* out of range
IndexPanics ==
  IF TopSymbol.t = "Rule" THEN child_start >= Len(transposed)
  ELSE child_start >= Len(input)

\* a call of next() begins on the iterator it: the new stack and outcome.
\* The call cannot return when next() is already active on the same
\* iterator state, or when the stack is full.
Call(st, it) ==
  IF \E i \in DOMAIN st : st[i].entry = it THEN [stack |-> <<>>, last |-> "overflow"]
  ELSE IF Len(st) >= MaxDepth THEN [stack |-> <<>>, last |-> "depth"]
  ELSE [stack |-> Append(st, Frame(it)), last |-> "running"]

\* the caller of the returning frame takes the result (r is "some" or
\* "none"): the caller's frame after the return
Resume(parent, r, node, it) ==
  IF parent.at = "wait_new"
  THEN IF r = "some"
       THEN [parent EXCEPT !.it = Push(@, node, it), !.at = "loop"]
       ELSE [parent EXCEPT !.at = "step", !.after = "loop"]
  ELSE IF r = "some"
       THEN [parent EXCEPT !.it = Push(@, node, it), !.at = "stepped"]
       ELSE [parent EXCEPT !.at = "step"]

\* the running call of next() returns r (and node) with its iterator it
Deliver(r, node, it) ==
  IF Len(stack) = 1
  THEN /\ stack' = <<>>
       /\ iter' = it
       /\ last' = r
       /\ trees' = IF r = "some" THEN Append(trees, node) ELSE trees
       /\ pc' = "trees"
  ELSE /\ stack' = Append(SubSeq(stack, 1, Len(stack) - 2),
                          Resume(stack[Len(stack) - 1], r, node, it))
       /\ UNCHANGED <<iter, last, trees, pc>>

\* a call of next() is made from the running frame, which waits in state at
CallFrom(frame, at, it) ==
  LET c == Call(SetTop([frame EXCEPT !.at = at]), it)
  IN /\ stack' = c.stack
     /\ last' = IF c.last = "running" THEN last ELSE c.last
     /\ pc' = IF c.last = "running" THEN pc ELSE "trees"
     /\ UNCHANGED <<iter, trees>>

\* Node::from_parse_state: the chart is transposed and the iterator for the
\* start symbol, start 0 and end exactly |input| is created
FromParseState ==
  /\ pc = "answered"
  /\ outcome = "Ok"
  /\ transposed' = transpose(parse_state)
  /\ iter' = NodeIteratorNew(transpose(parse_state), start_symbol(grammar), 0,
                             Known(Len(input)))
  /\ pc' = "trees"
  /\ UNCHANGED <<grammar, input, overflow_checks, previous, auxVars, chartVars, recognised, stack,
                 trees, last>>

\* the consumer calls next() on the tree iterator
CallNext ==
  /\ pc = "trees"
  /\ last \in {"unused", "some"}
  /\ Len(trees) < MaxTrees
  /\ stack' = <<Frame(iter)>>
  /\ pc' = "running"
  /\ UNCHANGED <<grammar, input, overflow_checks, previous, auxVars, chartVars, recognised,
                 transposed, iter, trees, last>>

\* let current = self.current?; with no current candidate
NextEnd ==
  /\ pc = "running"
  /\ Top.at = "loop"
  /\ Top.it.current = <<>>
  /\ Deliver("none", NoNode, Top.it)
  /\ UNCHANGED <<grammar, input, overflow_checks, previous, auxVars, chartVars, recognised, transposed>>

\* a full set of children: copy them, then call step()
NextEmit ==
  /\ pc = "running"
  /\ Top.at = "loop"
  /\ Top.it.current # <<>>
  /\ Len(Top.it.progress) = Len(TopBody)
  /\ stack' = SetTop([Top EXCEPT
                        !.at = "step",
                        !.after = "emit",
                        !.node = Internal(TopCurrent.rule.name,
                                          [i \in DOMAIN Top.it.progress |->
                                             Top.it.progress[i].node])])
  /\ UNCHANGED <<grammar, input, overflow_checks, previous, auxVars, pc, chartVars, recognised,
                 transposed, iter, trees, last>>

\* the computation of the child's goal fails: the whole call chain unwinds
NextPanic ==
  /\ AtSymbol
  /\ EndPanics \/ IndexPanics
  /\ stack' = <<>>
  /\ last' = "panic"
  /\ pc' = "trees"
  /\ UNCHANGED <<grammar, input, overflow_checks, previous, auxVars, chartVars, recognised,
                 transposed, iter, trees>>

\* Symbol::Rule branch: a fresh sub-iterator is created and asked for a node
NextChild ==
  /\ AtSymbol
  /\ ~EndPanics /\ ~IndexPanics
  /\ TopSymbol.t = "Rule"
  /\ CallFrom(Top, "wait_new",
              NodeIteratorNew(transposed, TopSymbol.name, child_start, child_end))
  /\ UNCHANGED <<grammar, input, overflow_checks, previous, auxVars, chartVars, recognised, transposed>>

\* Symbol::Literal and Symbol::OneOf branches
NextLeaf ==
  /\ AtSymbol
  /\ ~EndPanics /\ ~IndexPanics
  /\ TopSymbol.t # "Rule"
  /\ LET leaf == LeafFor(TopSymbol, input[child_start + 1])
     IN stack' = SetTop(IF leaf # <<>>
                        THEN [Top EXCEPT !.it = Push(@, leaf[1], EmptyIter)]
                        ELSE [Top EXCEPT !.at = "step", !.after = "loop"])
  /\ UNCHANGED <<grammar, input, overflow_checks, previous, auxVars, pc, chartVars, recognised,
                 transposed, iter, trees, last>>

\* step(): a decision point is popped and its iterator is asked for the
\* next node; the iterator of a leaf is empty and yields nothing
StepPop ==
  /\ pc = "running"
  /\ Top.at = "step"
  /\ Top.it.progress # <<>>
  /\ LET popped == [Top EXCEPT !.it.progress = Front(@)]
         sub == Top.it.progress[Len(Top.it.progress)].iter
     IN IF sub.kind = "empty"
        THEN /\ stack' = SetTop(popped)
             /\ UNCHANGED <<iter, trees, last, pc>>
        ELSE CallFrom(popped, "wait_step", sub)
  /\ UNCHANGED <<grammar, input, overflow_checks, previous, auxVars, chartVars, recognised, transposed>>

\* step(): no decision point is left, the next candidate becomes current
StepCandidate ==
  /\ pc = "running"
  /\ Top.at = "step"
  /\ Top.it.progress = <<>>
  /\ stack' = SetTop([Top EXCEPT !.it = PopCurrent(@), !.at = "stepped"])
  /\ UNCHANGED <<grammar, input, overflow_checks, previous, auxVars, pc, chartVars, recognised,
                 transposed, iter, trees, last>>

\* step() has returned to the loop of next(), which goes on
StepResume ==
  /\ pc = "running"
  /\ Top.at = "stepped"
  /\ Top.after = "loop"
  /\ stack' = SetTop([Top EXCEPT !.at = "loop"])
  /\ UNCHANGED <<grammar, input, overflow_checks, previous, auxVars, pc, chartVars, recognised,
                 transposed, iter, trees, last>>

\* step() has returned after the children were copied: return the node
EmitReturn ==
  /\ pc = "running"
  /\ Top.at = "stepped"
  /\ Top.after = "emit"
  /\ Deliver("some", Top.node, Top.it)
  /\ UNCHANGED <<grammar, input, overflow_checks, previous, auxVars, chartVars, recognised, transposed>>

(***************************************************************************)
(* A second run.  When the caller is done with the chart and the trees of  *)
(* one run, it runs the program again on the same input, either with the   *)
(* same grammar or with two rules of one name swapped; the results of the  *)
(* first run are kept for comparison.                                      *)
(***************************************************************************)
\* the caller has the results of the run: construction failed, or the tree
\* sequence ended, or a call of next() did not return, or the caller has
\* taken MaxTrees trees
RunOver ==
  \/ pc = "answered" /\ outcome = "Err"
  \/ pc = "trees" /\ last \in {"none", "panic", "overflow", "depth"}
  \/ pc = "trees" /\ last = "some" /\ Len(trees) >= MaxTrees

\* the rule list with the rules a and b exchanged
Swap(rules, a, b) ==
  [i \in DOMAIN rules |-> IF i = a THEN rules[b] ELSE IF i = b THEN rules[a] ELSE rules[i]]

Rerun ==
  /\ RunOver
  /\ previous = NoRun
  /\ \E a, b \in DOMAIN grammar :
       /\ a <= b
       /\ grammar[a].name = grammar[b].name
       /\ grammar' = Swap(grammar, a, b)
       /\ previous' = [kind |-> IF a = b THEN "same" ELSE "swap",
                       parse_state |-> parse_state,
                       outcome |-> outcome,
                       failure |-> failure,
                       recognised |-> recognised,
                       trees |-> trees,
                       last |-> last]
  /\ pc' = "head"
  /\ parse_state' = <<StateSetNew(from_rules(get_rules_by_name(grammar', start_symbol(grammar')), 0))>>
  /\ current_position' = 0
  /\ to_add' = <<>>
  /\ outcome' = "pending"
  /\ failure' = <<>>
  /\ recognised' = FALSE
  /\ transposed' = <<>>
  /\ iter' = NoIter
  /\ stack' = <<>>
  /\ trees' = <<>>
  /\ last' = "unused"
  /\ UNCHANGED <<input, overflow_checks, auxVars>>

Next ==
  \/ BuildFail
  \/ BuildEnter
  \/ BuildOk
  \/ Predict
  \/ Scan
  \/ Complete
  \/ EndOfSet
  \/ Recognise
  \/ FromParseState
  \/ CallNext
  \/ NextEnd
  \/ NextEmit
  \/ NextPanic
  \/ NextChild
  \/ NextLeaf
  \/ StepPop
  \/ StepCandidate
  \/ StepResume
  \/ EmitReturn
  \/ Rerun

Spec == Init /\ [][Next]_vars

FairSpec == Spec /\ WF_vars(Next)

(***************************************************************************)
(* The language of the grammar, defined from the rules alone: Derives is   *)
(* the least set of spans <<name, i, j>> such that some rule called name   *)
(* has a body that matches input[i..j), where a terminal matches one       *)
(* accepted character and a reference matches a span already derived.      *)
(***************************************************************************)
TerminalMatches(sym, e) ==
  /\ e < Len(input)
  /\ \/ sym.t = "Literal" /\ input[e + 1] = sym.c
     \/ sym.t = "OneOf" /\ input[e + 1] \in sym.cs

SymEnds(sym, e, D) ==
  IF sym.t = "Rule" THEN {j \in e..Len(input) : <<sym.name, e, j>> \in D}
  ELSE IF TerminalMatches(sym, e) THEN {e + 1} ELSE {}

\* the positions at which the first k symbols of body can end, from i
RECURSIVE BodyEnds(_, _, _, _)
BodyEnds(body, k, i, D) ==
  IF k = 0 THEN {i}
  ELSE UNION {SymEnds(body[k], e, D) : e \in BodyEnds(body, k - 1, i, D)}

DeriveStep(D) ==
  D \cup UNION {UNION {{<<grammar[r].name, i, j>> :
                          j \in BodyEnds(grammar[r].body, Len(grammar[r].body), i, D)} :
                       i \in 0..Len(input)} :
                r \in DOMAIN grammar}

RECURSIVE DeriveFrom(_)
DeriveFrom(D) == IF DeriveStep(D) = D THEN D ELSE DeriveFrom(DeriveStep(D))

Derives == DeriveFrom({})

InLanguage == <<grammar[1].name, 0, Len(input)>> \in Derives

(***************************************************************************)
(* Derivations.  CountGoal counts the derivations of a span by rule and    *)
(* split; Inf stands for infinitely many (the span is derivable and        *)
(* occurs below itself).                                                   *)
(***************************************************************************)
Inf == 0 - 1

Plus(a, b) == IF a = Inf \/ b = Inf THEN Inf ELSE a + b

Times(a, b) == IF a = 0 \/ b = 0 THEN 0 ELSE IF a = Inf \/ b = Inf THEN Inf ELSE a * b

RECURSIVE CountGoal(_, _, _, _, _)
RECURSIVE CountBody(_, _, _, _, _, _)
RECURSIVE CountRules(_, _, _, _, _, _)
RECURSIVE CountSplits(_, _, _, _, _, _, _)

CountGoal(D, name, i, j, active) ==
  IF <<name, i, j>> \notin D THEN 0
  ELSE IF <<name, i, j>> \in active THEN Inf
  ELSE CountRules(D, Len(grammar), name, i, j, active \cup {<<name, i, j>>})

\* the derivations of the span by the first r rules
CountRules(D, r, name, i, j, active) ==
  IF r = 0 THEN 0
  ELSE Plus(CountRules(D, r - 1, name, i, j, active),
            IF grammar[r].name = name
            THEN CountBody(D, grammar[r].body, 1, i, j, active)
            ELSE 0)

\* the ways in which the symbols k.. of body derive input[i..j)
CountBody(D, body, k, i, j, active) ==
  IF k > Len(body) THEN (IF i = j THEN 1 ELSE 0)
  ELSE IF body[k].t = "Rule" THEN CountSplits(D, body, k, i, j, j, active)
  ELSE IF i < j /\ TerminalMatches(body[k], i)
       THEN CountBody(D, body, k + 1, i + 1, j, active)
       ELSE 0

\* the same, with symbol k ending at one of the positions i..m
CountSplits(D, body, k, i, j, m, active) ==
  IF m < i THEN 0
  ELSE Plus(CountSplits(D, body, k, i, j, m - 1, active),
            Times(CountGoal(D, body[k].name, i, m, active),
                  CountBody(D, body, k + 1, m, j, active)))

Derivations == CountGoal(Derives, grammar[1].name, 0, Len(input), {})

\* the leaf characters of a tree, left to right
RECURSIVE Leaves(_)
Leaves(node) ==
  IF node.leaf THEN <<node.c>>
  ELSE LET RECURSIVE Cat(_)
           Cat(k) == IF k = 0 THEN <<>> ELSE Cat(k - 1) \o Leaves(node.children[k])
       IN Cat(Len(node.children))

\* the child matches the body symbol: the leaf c for Literal(c), a leaf of
\* the set for OneOf, an internal node called A for RuleRef(A)
ChildMatches(child, sym) ==
  IF sym.t = "Literal" THEN child.leaf /\ child.c = sym.c
  ELSE IF sym.t = "OneOf" THEN child.leaf /\ child.c \in sym.cs
  ELSE ~child.leaf /\ child.name = sym.name

\* every internal node of the tree is built from the body of a rule
RECURSIVE WellFormed(_)
WellFormed(node) ==
  \/ node.leaf
  \/ /\ \E r \in DOMAIN grammar :
          /\ grammar[r].name = node.name
          /\ Len(grammar[r].body) = Len(node.children)
          /\ \A k \in DOMAIN node.children :
               ChildMatches(node.children[k], grammar[r].body[k])
     /\ \A k \in DOMAIN node.children : WellFormed(node.children[k])

\* the tree is a derivation of the whole input from the start symbol
IsDerivation(node) ==
  /\ ~node.leaf
  /\ node.name = grammar[1].name
  /\ WellFormed(node)
  /\ Leaves(node) = input

Yielded1 == pc = "trees" /\ last # "unused"

Exhausted == pc = "trees" /\ last = "none"

NoRepeatedRule == \A a, b \in DOMAIN grammar : grammar[a] = grammar[b] => a = b

(***************************************************************************)
(* Claims.                                                                 *)
(***************************************************************************)

\* C1: soundness of recognise: when recognise answers true, the input is
\* derivable from the start symbol.
C1_RecogniseSound == (pc = "answered" /\ recognised) => InLanguage

\* C2: completeness of recognise: when the input is derivable from the
\* start symbol, recognise answers true.
C2_RecogniseComplete == (pc = "answered" /\ InLanguage) => recognised

\* C3: recogniser and tree extractor agree: once the first call of next()
\* on the iterator built from the chart is over, a tree was yielded iff
\* recognise answered true.
C3_RecogniseIffTree == Yielded1 => (recognised <=> trees # <<>>)

\* C4: tree fidelity (leaves): every yielded tree has exactly |input| leaves
\* and their left-to-right concatenation is the input.
C4_LeavesAreInput ==
  \A t \in DOMAIN trees : NodeLen(trees[t]) = Len(input) /\ Leaves(trees[t]) = input

\* C5: for an input with finitely many derivations the tree sequence holds
\* exactly one tree per derivation: every yielded tree is a derivation of
\* the whole input, no tree is yielded twice, no more trees than
\* derivations are yielded, and the exhausted sequence has as many trees as
\* there are derivations.
C5_OneTreePerDerivation ==
  (Yielded1 /\ Derivations # Inf) =>
     /\ last \in {"some", "none"}
     /\ \A t \in DOMAIN trees : IsDerivation(trees[t])
     /\ NoRepeatedRule =>
          \A t, u \in DOMAIN trees : trees[t] = trees[u] => t = u
     /\ Len(trees) <= Derivations
     /\ Exhausted => Len(trees) = Derivations

\* C6: tree fidelity (structure): every internal node of every yielded tree
\* has the name of a rule whose body has as many symbols as the node has
\* children, and each child matches its symbol (the leaf c for Literal(c),
\* a leaf in S for OneOf(S), an internal node called A for RuleRef(A)).
C6_NodesFollowRules == \A t \in DOMAIN trees : WellFormed(trees[t])

\* a tree with an internal child, a Literal leaf and a OneOf leaf was yielded
C6_Witness ==
  /\ grammar = ARITH
  /\ input = <<"(", "1", ")">>
  /\ trees # <<>>
  /\ Leaves(trees[1]) = input
  /\ \E k \in DOMAIN trees[1].children : ~trees[1].children[k].leaf

\* no item of the set scans the character ch
NoScan(set, ch) ==
  \A k \in DOMAIN set.items :
     LET item == set.items[k]
     IN item.progress < Len(item.rule.body) =>
          LET sym == item.rule.body[item.progress + 1]
          IN ~ \/ sym.t = "Literal" /\ sym.c = ch
               \/ sym.t = "OneOf" /\ ch \in sym.cs

\* the positions p < |input| whose set exists and scans nothing
StuckAt == {p \in 0..(Len(input) - 1) :
              p < Len(parse_state) /\ NoScan(parse_state[p + 1], input[p + 1])}

Least(S) == CHOOSE p \in S : \A q \in S : p <= q

\* C7: chart construction fails iff some position p < |input| has a set of
\* which no item scans input[p]; the failure value is the suffix of the
\* input from the least such p (so it is not empty); otherwise the chart is
\* returned.
C7_FailureSuffix ==
  pc \in {"built", "answered"} =>
     /\ outcome = "Err" <=> StuckAt # {}
     /\ outcome = "Err" =>
          /\ failure = SubSeq(input, Least(StuckAt) + 1, Len(input))
          /\ failure # <<>>

\* "1%2" fails with "%2"
C7_Witness ==
  /\ grammar = ARITH
  /\ input = <<"1", "%", "2">>
  /\ pc = "built"
  /\ outcome = "Err"
  /\ failure = <<"%", "2">>

\* C8: a chart that was built has exactly |input| + 1 sets, and recognise
\* answers true iff construction succeeded and S_n, n = |input|, holds a
\* complete item of the start symbol with start 0.
C8_LastSetDecides ==
  /\ (pc \in {"built", "answered"} /\ outcome = "Ok") =>
        Len(parse_state) = Len(input) + 1
  /\ pc = "answered" =>
        (recognised <=>
           /\ outcome = "Ok"
           /\ \E k \in DOMAIN parse_state[Len(input) + 1].items :
                LET item == parse_state[Len(input) + 1].items[k]
                IN /\ item.progress = Len(item.rule.body)
                   /\ item.rule.name = grammar[1].name
                   /\ item.start = 0)

\* "(1" is rejected although S_2 holds a complete Sum that starts at 1
C8_Witness ==
  /\ grammar = ARITH
  /\ input = <<"(", "1">>
  /\ pc = "answered"
  /\ outcome = "Ok"
  /\ ~recognised
  /\ \E k \in DOMAIN parse_state[3].items :
       /\ parse_state[3].items[k].rule.name = "Sum"
       /\ parse_state[3].items[k].progress = Len(parse_state[3].items[k].rule.body)

\* the items that can ever be in the set of position i
ItemsOf(i) ==
  UNION {{MkItem(grammar[r], st, pr) : st \in 0..i, pr \in 0..Len(grammar[r].body)} :
         r \in DOMAIN grammar}

\* the work left in the current set: the items that may still be appended
\* plus the items that wait for the cursor
Measure ==
  Cardinality({u \in ItemsOf(current_position) : ~Contains(current_state.items, u)})
  + Len(current_state.items) - current_state.next

\* C9: chart construction terminates: every step on the current set lowers
\* a measure that never goes below zero (an appended item is one that was
\* not in the set and each step moves the cursor), and construction comes
\* to its result.
C9_ChartTerminates ==
  /\ [][(pc = "set" /\ pc' = "set") => (Measure' < Measure /\ Measure' >= 0)]_vars
  /\ <>(pc = "built")

\* the chart of A -> ; A -> B; B -> A on the empty input: one finite set
C9_Witness ==
  /\ grammar = LOOP
  /\ input = <<>>
  /\ pc = "built"
  /\ outcome = "Ok"
  /\ Len(parse_state) = 1
  /\ parse_state[1].items = <<MkItem(LOOP[1], 0, 0), MkItem(LOOP[2], 0, 0),
                              MkItem(LOOP[3], 0, 0), MkItem(LOOP[3], 0, 1),
                              MkItem(LOOP[2], 0, 1)>>

\* C10: tree enumeration is lazy per tree: no call of next() fails to
\* return because it recurses without bound.
C10_NextReturns == last \notin {"overflow", "depth"}

\* the item that is being processed calls Item::complete
CallsComplete ==
  /\ pc = "set"
  /\ HasYielded
  /\ \/ ~HasSym(Yielded.rule, Yielded.progress)
     \/ HasNextName(Yielded) /\ rule_is_nullable(grammar, next_name(Yielded))

\* C11: the Earley main loop never fails at run time: every item (R, j, k)
\* of S_i has j <= i and k <= |R.body|, the chart has at least one set, the
\* source set of every completion is the current set or an earlier one, the
\* position of every scan is at most |input| and the failure suffix starts
\* inside the input.
C11_LoopIndicesInRange ==
  /\ Len(parse_state) >= 1
  /\ \A i \in DOMAIN parse_state : \A k \in DOMAIN parse_state[i].items :
        LET item == parse_state[i].items[k]
        IN /\ item.start >= 0
           /\ item.start <= i - 1
           /\ item.progress >= 0
           /\ item.progress <= Len(item.rule.body)
  /\ CallsComplete => (Yielded.start >= 0 /\ Yielded.start <= Len(prev_state))
  /\ pc = "set" => (current_position = Len(parse_state) - 1 /\ current_position <= Len(input))
  /\ (pc = "head" /\ current_position <= Len(input) /\ current_position >= Len(parse_state)) =>
        (current_position - 1 >= 0 /\ current_position - 1 <= Len(input))

\* the chart of "1+2" was built: its last set holds a complete item that
\* was advanced by a completion reading S_0
C11_Witness ==
  /\ grammar = ARITH
  /\ input = <<"1", "+", "2">>
  /\ pc = "built"
  /\ outcome = "Ok"
  /\ \E k \in DOMAIN parse_state[4].items :
       /\ parse_state[4].items[k] = MkItem(ARITH[1], 0, 3)

\* the items of the list are pairwise distinct
Distinct(items) == \A a, b \in DOMAIN items : items[a] = items[b] => a = b

\* C12: within every set of the chart, at every point of construction, the
\* items are pairwise distinct.
C12_ItemsDistinct == \A i \in DOMAIN parse_state : Distinct(parse_state[i].items)

\* construction of the set is over: StateSet::next has returned None
SetFinished(i) == parse_state[i].next > Len(parse_state[i].items)

\* the items of the set that wait for the name, each advanced by one place,
\* are in the item list
WaitingAdvanced(set, name, items) ==
  \A b \in DOMAIN set.items :
     (HasNextName(set.items[b]) /\ next_name(set.items[b]) = name) =>
        Contains(items, [set.items[b] EXCEPT !.progress = @ + 1])

\* C13: completion closure: in a finished S_i, for every complete item
\* (R, j, |R.body|) and every item of S_j whose next symbol is
\* RuleRef(R.name), the advanced form of that item is in S_i (also for
\* j = i).
C13_CompletionClosure ==
  \A i \in DOMAIN parse_state :
     SetFinished(i) =>
        \A a \in DOMAIN parse_state[i].items :
           LET item == parse_state[i].items[a]
           IN item.progress = Len(item.rule.body) =>
                WaitingAdvanced(parse_state[item.start + 1], item.rule.name,
                                parse_state[i].items)

\* the item that is being processed predicts a nullable name
PredictsNullable(item) ==
  HasNextName(item) /\ rule_is_nullable(grammar, next_name(item))

\* C14: nullable prediction: the step that processes an item whose next
\* symbol is RuleRef(A), A nullable, leaves the advanced form of that item
\* in the current set; and every item of a finished set that predicts a
\* nullable name has its advanced form in the set.
C14_NullablePrediction ==
  /\ [][(pc = "set" /\ HasYielded /\ PredictsNullable(Yielded)) =>
          Contains(parse_state'[Len(parse_state)].items,
                   [Yielded EXCEPT !.progress = @ + 1])]_vars
  /\ [](\A i \in DOMAIN parse_state :
          SetFinished(i) =>
             \A a \in DOMAIN parse_state[i].items :
                PredictsNullable(parse_state[i].items[a]) =>
                   Contains(parse_state[i].items,
                            [parse_state[i].items[a] EXCEPT !.progress = @ + 1]))

\* C15: prediction closure: in a finished S_i, for every item whose next
\* symbol is RuleRef(A), every grammar rule called A is in S_i as an item
\* with start i and progress 0 (none when no rule is called A).
C15_PredictionClosure ==
  \A i \in DOMAIN parse_state :
     SetFinished(i) =>
        \A a \in DOMAIN parse_state[i].items :
           LET item == parse_state[i].items[a]
           IN (item.progress < Len(item.rule.body)
               /\ item.rule.body[item.progress + 1].t = "Rule") =>
                \A r \in DOMAIN grammar :
                   grammar[r].name = item.rule.body[item.progress + 1].name =>
                      Contains(parse_state[i].items,
                               [rule |-> grammar[r], start |-> i - 1, progress |-> 0])

\* the chart of "(1": after "(" the set S_1 predicts Sum and holds both rules
\* of Number with start 1
C15_Witness ==
  /\ grammar = ARITH
  /\ input = <<"(", "1">>
  /\ pc = "built"
  /\ outcome = "Ok"
  /\ Contains(parse_state[2].items, MkItem(ARITH[5], 0, 1))
  /\ Contains(parse_state[2].items, MkItem(ARITH[7], 1, 0))
  /\ Contains(parse_state[2].items, MkItem(ARITH[8], 1, 0))

\* the advanced forms of the items of the set whose next symbol is a
\* terminal that accepts the character ch
ScanOutputs(set, ch) ==
  {[set.items[k] EXCEPT !.progress = @ + 1] :
     k \in {a \in DOMAIN set.items :
              LET item == set.items[a]
              IN /\ item.progress < Len(item.rule.body)
                 /\ LET sym == item.rule.body[item.progress + 1]
                    IN \/ sym.t = "Literal" /\ sym.c = ch
                       \/ sym.t = "OneOf" /\ ch \in sym.cs}}

\* the set S_i, i = current_position, was just created from the scan outputs
\* of S_{i-1}
JustPushed ==
  /\ pc = "head"
  /\ current_position >= 1
  /\ Len(parse_state) = current_position + 1

\* C16: scan closure: a set S_{i+1} is created with exactly the advanced
\* forms of the items of the finished S_i whose next symbol is a terminal
\* that accepts input[i]; at i = |input| no scan matches, so there is no
\* set beyond S_|input|.
C16_ScanClosure ==
  /\ JustPushed =>
        /\ current_position <= Len(input)
        /\ SetFinished(current_position)
        /\ parse_state[current_position + 1].next = 0
        /\ {parse_state[current_position + 1].items[k] :
              k \in DOMAIN parse_state[current_position + 1].items}
           = ScanOutputs(parse_state[current_position], input[current_position])
  /\ (pc = "set" /\ current_position = Len(input)) => to_add = <<>>
  /\ Len(parse_state) <= Len(input) + 1

\* S_1 of "1+2" was just created from the two items of S_0 that scan "1"
C16_Witness ==
  /\ grammar = ARITH
  /\ input = <<"1", "+", "2">>
  /\ JustPushed
  /\ current_position = 1
  /\ parse_state[2].items = <<MkItem(ARITH[7], 0, 1), MkItem(ARITH[8], 0, 1)>>

\* the complete items of a chart, each with the index of its set
CompleteItems(ps) ==
  UNION {{<<i, ps[i].items[k]>> :
            k \in {a \in DOMAIN ps[i].items :
                     ps[i].items[a].progress >= Len(ps[i].items[a].rule.body)}} :
         i \in DOMAIN ps}

TreeSet(ts) == {ts[k] : k \in DOMAIN ts}

\* the caller stopped after MaxTrees trees: the rest of the sequence is not
\* known
Cut(l, ts) == l = "some" /\ Len(ts) >= MaxTrees

\* C17: ordering stability: the run on the grammar with two rules of one
\* name swapped has the same set of complete items in its chart and
\* produces the same set of trees as the run on the grammar itself.
C17_OrderingStability ==
  (previous.kind = "swap" /\ RunOver) =>
     /\ previous.outcome = outcome
     /\ CompleteItems(previous.parse_state) = CompleteItems(parse_state)
     /\ (~Cut(previous.last, previous.trees) /\ ~Cut(last, trees)) =>
           TreeSet(previous.trees) = TreeSet(trees)

IsPrefix(s, t) == Len(s) <= Len(t) /\ SubSeq(t, 1, Len(s)) = s

\* C19: chart monotonicity: every step of construction only appends: each
\* set is still there after the step with its item list as a prefix of the
\* new one; while S_i is processed the sets before it do not change at all;
\* and after construction the chart is only read.
C19_ChartMonotone ==
  [][/\ pc \in {"head", "set"} =>
          \A i \in DOMAIN parse_state :
             /\ i \in DOMAIN parse_state'
             /\ IsPrefix(parse_state[i].items, parse_state'[i].items)
             /\ (pc = "set" /\ i < Len(parse_state)) => parse_state'[i] = parse_state[i]
     /\ (pc \notin {"head", "set"} /\ previous' = previous) => parse_state' = parse_state
    ]_vars

\* a completion has appended to S_1 of "1+2" while S_0 stayed as it was
C19_Witness ==
  /\ grammar = ARITH
  /\ input = <<"1", "+", "2">>
  /\ pc = "set"
  /\ current_position = 1
  /\ Len(parse_state) = 2
  /\ Len(parse_state[2].items) > 2
  /\ SetFinished(1)

\* one item (R, 0, 0) for each rule called like the first rule, in grammar
\* order
Seed ==
  LET first == SelectSeq(grammar, LAMBDA r : r.name = grammar[1].name)
  IN [k \in DOMAIN first |-> [rule |-> first[k], start |-> 0, progress |-> 0]]

\* C20: start-set seeding: before any item is processed S_0 is exactly the
\* list of the items (R, 0, 0) of the rules of the start symbol, in grammar
\* order, and these stay the first items of S_0.
C20_StartSetSeeded ==
  /\ (pc = "head" /\ current_position = 0) =>
        (Len(parse_state) = 1 /\ parse_state[1].items = Seed /\ parse_state[1].next = 0)
  /\ IsPrefix(Seed, parse_state[1].items)

\* the finished S_0 of ARITH: the two rules of Sum first, the predicted
\* items after them
C20_Witness ==
  /\ grammar = ARITH
  /\ SetFinished(1)
  /\ Len(parse_state[1].items) > 2
  /\ parse_state[1].items[1] = MkItem(ARITH[1], 0, 0)
  /\ parse_state[1].items[2] = MkItem(ARITH[2], 0, 0)

(***************************************************************************)
(* Constructors and functions called on their own (src/grammar/rule.rs,    *)
(* src/grammar.rs, src/utils.rs, src/macros.rs).  One call is made with    *)
(* arguments drawn from bounded sets and its result is kept; a panic is a  *)
(* result.  The parser does not run.                                       *)
(***************************************************************************)
Panicked == [kind |-> "panic", value |-> <<>>]

Returns(v) == [kind |-> "ok", value |-> v]

\* the arguments of a call; the ones the function does not take are empty
\* (a rule that is the receiver of a call is a rule list of length one)
MkCall(fn, name, body, rules, chars, N) ==
  [fn |-> fn, name |-> name, body |-> body, rules |-> rules, chars |-> chars, N |-> N]

\* the symbols, bodies and names the calls are made with
CallSyms == {SymRule("A"), SymRule("B"), SymLiteral("x"), SymOneOf({"x", "y"})}

CallBodies == UNION {[1..k -> CallSyms] : k \in 0..MaxBody}

\* names as character sequences, with and without the reserved character
CallNames == Strings({"@", "R"}, MaxName)

\* name.starts_with('@')
starts_with_at(name) == name # <<>> /\ name[1] = "@"

\* Rule::new that accepts every name
RuleNewUnchecked(name, body) == Returns(MkRule(name, body))

\* Rule::new
RuleNew(name, body) ==
  IF starts_with_at(name) THEN Panicked ELSE Returns(MkRule(name, body))

RuleNewCalls == {MkCall("Rule::new", n, b, <<>>, {}, {}) : n \in CallNames, b \in CallBodies}

\* the parser is not started
ParserIdle ==
  /\ grammar = EMPTY
  /\ input = <<>>
  /\ overflow_checks = TRUE
  /\ pc = "idle"
  /\ parse_state = <<>>
  /\ current_position = 0
  /\ to_add = <<>>
  /\ outcome = "pending"
  /\ failure = <<>>
  /\ recognised = FALSE
  /\ transposed = <<>>
  /\ iter = NoIter
  /\ stack = <<>>
  /\ trees = <<>>
  /\ last = "unused"
  /\ previous = NoRun

CallRuleNew ==
  /\ call.fn = "Rule::new"
  /\ returned = NotReturned
  /\ returned' = RuleNew(call.name, call.body)
  /\ UNCHANGED <<parserVars, call, tokVars, setVars>>

\* the rules and rule lists the calls are made with
CallRules == {MkRule(n, b) : n \in {"A", "B"}, b \in CallBodies}

\* the bodies of the rules of a rule list: empty, one symbol, two symbols,
\* with and without a terminal
ListBodies ==
  { <<>>, <<SymRule("A")>>, <<SymRule("B")>>, <<SymLiteral("x")>>,
    <<SymRule("A"), SymRule("B")>>, <<SymRule("B"), SymRule("B")>>,
    <<SymRule("A"), SymLiteral("x")>> }

ListRules == {MkRule(n, b) : n \in {"A", "B"}, b \in ListBodies}

CallRuleLists == UNION {[1..k -> ListRules] : k \in 0..MaxRules}

\* Grammar::new that accepts every rule list
GrammarNewUnchecked(rules) == Returns(rules)

\* Grammar::new
GrammarNew(rules) == IF rules = <<>> THEN Panicked ELSE Returns(rules)

GrammarNewCalls == {MkCall("Grammar::new", <<>>, <<>>, rs, {}, {}) : rs \in CallRuleLists}

CallGrammarNew ==
  /\ call.fn = "Grammar::new"
  /\ returned = NotReturned
  /\ returned' = GrammarNew(call.rules)
  /\ UNCHANGED <<parserVars, call, tokVars, setVars>>

\* the character sets and the string literals the calls are made with
CallCharSets == SUBSET {"a", "b"}

CallLiterals == Strings({"a", "b"}, MaxName)

\* NonEmptyHashSet::new that accepts every set
NonEmptyHashSetNewUnchecked(contents) == Returns(contents)

\* NonEmptyHashSet::new
NonEmptyHashSetNew(contents) ==
  IF contents = {} THEN Panicked ELSE Returns(contents)

\* $str.chars().collect::<HashSet<_>>()
CharsOf(str) == {str[k] : k \in DOMAIN str}

\* symbol!([ $str ]): the OneOf symbol of the characters of the literal
SymbolOneOf(str) ==
  LET set == NonEmptyHashSetNew(CharsOf(str))
  IN IF set.kind = "panic" THEN Panicked ELSE Returns(SymOneOf(set.value))

NonEmptyHashSetNewCalls ==
  {MkCall("NonEmptyHashSet::new", <<>>, <<>>, <<>>, cs, {}) : cs \in CallCharSets}

SymbolOneOfCalls == {MkCall("symbol!", str, <<>>, <<>>, {}, {}) : str \in CallLiterals}

CallNonEmptyHashSetNew ==
  /\ call.fn = "NonEmptyHashSet::new"
  /\ returned = NotReturned
  /\ returned' = NonEmptyHashSetNew(call.chars)
  /\ UNCHANGED <<parserVars, call, tokVars, setVars>>

CallSymbolOneOf ==
  /\ call.fn = "symbol!"
  /\ returned = NotReturned
  /\ returned' = SymbolOneOf(call.name)
  /\ UNCHANGED <<parserVars, call, tokVars, setVars>>

\* the sets of names given to Rule::is_nullable
CallNameSets == SUBSET {"A", "B"}

IsNullableCalls ==
  {MkCall("Rule::is_nullable", <<>>, <<>>, <<r>>, {}, N) : r \in CallRules, N \in CallNameSets}

CallIsNullable ==
  /\ call.fn = "Rule::is_nullable"
  /\ returned = NotReturned
  /\ returned' = Returns(is_nullable(call.rules[1], call.N))
  /\ UNCHANGED <<parserVars, call, tokVars, setVars>>

NullableCalls ==
  {MkCall("nullable", <<>>, <<>>, rs, {}, {}) : rs \in CallRuleLists \ {<<>>}}

\* the nullable set is computed for the rules of a grammar
CallNullable ==
  /\ call.fn = "nullable"
  /\ returned = NotReturned
  /\ returned' = Returns(NullableSet(call.rules))
  /\ UNCHANGED <<parserVars, call, tokVars, setVars>>

UnitCalls == RuleNewCalls \cup GrammarNewCalls \cup NonEmptyHashSetNewCalls \cup SymbolOneOfCalls \cup IsNullableCalls \cup NullableCalls

UnitInit ==
  /\ ParserIdle
  /\ call \in UnitCalls
  /\ returned = NotReturned
  /\ TokIdle
  /\ SetIdle

UnitNext ==
  \/ CallRuleNew
  \/ CallGrammarNew
  \/ CallNonEmptyHashSetNew
  \/ CallSymbolOneOf
  \/ CallIsNullable
  \/ CallNullable

UnitSpec == UnitInit /\ [][UnitNext]_vars

\* C21: Rule::new panics exactly when the name begins with '@'; for every
\* other name and every body, the empty one included, it returns the rule
\* with that name and that body.
C21_RuleNewReserved ==
  (call.fn = "Rule::new" /\ returned # NotReturned) =>
     /\ returned.kind = "panic" <=> (Len(call.name) >= 1 /\ Head(call.name) = "@")
     /\ returned.kind # "panic" =>
          /\ returned.kind = "ok"
          /\ returned.value.name = call.name
          /\ returned.value.body = call.body

\* Rule::new("@R", []) has panicked
C21_Witness ==
  /\ call.fn = "Rule::new"
  /\ call.name = <<"@", "R">>
  /\ call.body = <<>>
  /\ returned = Panicked

\* C22: Grammar::new panics exactly when the rule list is empty; for a
\* non-empty list it keeps the rules in the given order and the start symbol
\* is the name of the first rule.
C22_GrammarNewNonEmpty ==
  (call.fn = "Grammar::new" /\ returned # NotReturned) =>
     /\ returned.kind = "panic" <=> Len(call.rules) = 0
     /\ returned.kind # "panic" =>
          /\ returned.kind = "ok"
          /\ Len(returned.value) = Len(call.rules)
          /\ \A k \in DOMAIN call.rules : returned.value[k] = call.rules[k]
          /\ start_symbol(returned.value) = call.rules[1].name
          /\ get_rules_by_name(returned.value, call.rules[1].name)
             = SelectSeq(call.rules, LAMBDA r : r.name = call.rules[1].name)

\* Grammar::new(vec![]) has panicked
C22_Witness ==
  /\ call.fn = "Grammar::new"
  /\ call.rules = <<>>
  /\ returned = Panicked

\* C23: a OneOf symbol never holds an empty character set:
\* NonEmptyHashSet::new panics for the empty set and keeps exactly the given
\* characters otherwise, and the OneOf symbol of a string literal is made
\* through it.
C23_OneOfNonEmpty ==
  /\ (call.fn = "NonEmptyHashSet::new" /\ returned # NotReturned) =>
        /\ returned.kind = "panic" <=> call.chars = {}
        /\ returned.kind # "panic" => (returned.kind = "ok" /\ returned.value = call.chars)
  /\ (call.fn = "symbol!" /\ returned # NotReturned) =>
        /\ returned.kind = "panic" <=> Len(call.name) = 0
        /\ returned.kind # "panic" =>
             /\ returned.value.t = "OneOf"
             /\ returned.value.cs # {}
             /\ \A ch \in {"a", "b"} :
                  ch \in returned.value.cs <=> \E k \in DOMAIN call.name : call.name[k] = ch

\* NonEmptyHashSet::new of the empty set has panicked
C23_Witness ==
  /\ call.fn = "NonEmptyHashSet::new"
  /\ call.chars = {}
  /\ returned = Panicked

\* C24: local nullability: Rule::is_nullable(N) is true iff the body is
\* empty or every body symbol is a RuleRef whose name is in N or is the
\* rule's own name; a terminal in the body makes it false, and a rule whose
\* body refers only to itself is nullable for the empty N.
C24_LocallyNullable ==
  (call.fn = "Rule::is_nullable" /\ returned # NotReturned) =>
     /\ returned.kind = "ok"
     /\ returned.value <=>
          \/ Len(call.rules[1].body) = 0
          \/ \A k \in 1..Len(call.rules[1].body) :
                /\ call.rules[1].body[k].t = "Rule"
                /\ call.rules[1].body[k].name \in call.N \cup {call.rules[1].name}
     /\ (\E k \in 1..Len(call.rules[1].body) : call.rules[1].body[k].t \in {"Literal", "OneOf"}) =>
          ~returned.value
     /\ (call.N = {} /\ Len(call.rules[1].body) >= 1
         /\ \A k \in 1..Len(call.rules[1].body) : call.rules[1].body[k] = SymRule(call.rules[1].name)) =>
          returned.value

\* A -> A is nullable given the empty set
C24_Witness ==
  /\ call.fn = "Rule::is_nullable"
  /\ call.rules = <<MkRule("A", <<SymRule("A")>>)>>
  /\ call.N = {}
  /\ returned = Returns(TRUE)

\* the rule is locally nullable given the set M of names
LocallyNullable(rule, M) ==
  \A k \in 1..Len(rule.body) :
     rule.body[k].t = "Rule" /\ rule.body[k].name \in M \cup {rule.name}

\* M holds the name of every rule of the list that is locally nullable
\* given M
ClosedUnder(rules, M) ==
  \A r \in DOMAIN rules : LocallyNullable(rules[r], M) => rules[r].name \in M

\* the rule list in every order
Orders(rules) ==
  {[i \in DOMAIN rules |-> rules[f[i]]] :
     f \in {g \in [DOMAIN rules -> DOMAIN rules] :
              \A a, b \in DOMAIN rules : g[a] = g[b] => a = b}}

\* C25: the nullable set computed for a rule list is the least set that
\* holds the name of every rule locally nullable given it, and computing it
\* again, for the rules in any order, gives the same set.
C25_NullableLeastFixpoint ==
  (call.fn = "nullable" /\ returned # NotReturned) =>
     /\ returned.kind = "ok"
     /\ ClosedUnder(call.rules, returned.value)
     /\ \A M \in SUBSET {"A", "B"} : ClosedUnder(call.rules, M) => returned.value \subseteq M
     /\ \A rs \in Orders(call.rules) : NullableSet(rs) = returned.value

\* A -> B; B -> : the second pass adds A to {B}
C25_Witness ==
  /\ call.fn = "nullable"
  /\ call.rules = <<MkRule("A", <<SymRule("B")>>), MkRule("B", <<>>)>>
  /\ returned = Returns({"A", "B"})
  /\ NullablePass(call.rules, {}) = {"B"}

(***************************************************************************)
(* The tokenizer library (src/tokenizer.rs, src/tokenizer/builtins).  A    *)
(* tokenizer is a state machine fed one character at a time; literal,      *)
(* firstof and chain are modelled, the last two over lists of              *)
(* sub-tokenizers.  A panic of feed is a fourth result beside the three    *)
(* values of State.                                                        *)
(***************************************************************************)
MkTokenizer(kind, tag, data, subs) ==
  [kind |-> kind, tag |-> tag, data |-> data, progress |-> 0, chosen |-> 0,
   failed |-> FALSE, subs |-> subs]

\* literal(tag, lit): BasicTokenizer over Literal
literal(tag, lit) == MkTokenizer("literal", tag, lit, <<>>)

\* firstof(tokenizers); chosen_tokenizer None is 0, Some(i) is i + 1
firstof(tokenizers) == MkTokenizer("firstof", "", <<>>, tokenizers)

\* chain(tag, tokenizers): BasicTokenizer over Chain
chain(tag, tokenizers) == MkTokenizer("chain", tag, <<>>, tokenizers)

RECURSIVE reset(_)
\* Tokenizer::reset
reset(t) ==
  LET subs == [i \in DOMAIN t.subs |-> reset(t.subs[i])]
  IN  CASE t.kind = "literal" -> [t EXCEPT !.progress = 0]
        [] t.kind = "firstof" -> [t EXCEPT !.chosen = 0, !.subs = subs]
        [] t.kind = "chain" -> [t EXCEPT !.failed = FALSE, !.progress = 0, !.subs = subs]

RECURSIVE can_match_empty(_)
\* can_match_empty: of a literal its data is empty, of a chain all can
can_match_empty(t) ==
  CASE t.kind = "literal" -> t.data = <<>>
    [] t.kind = "chain" -> \A i \in DOMAIN t.subs : can_match_empty(t.subs[i])

\* Chain::the_rest_are_empty
the_rest_are_empty(t) ==
  \A i \in (t.progress + 1)..Len(t.subs) : can_match_empty(t.subs[i])

\* the result of a feed: the State returned, or a panic, and the tokenizer after
Fed(state, t) == [state |-> state, t |-> t]

\* Literal::feed
LiteralFeed(t, c) ==
  IF t.progress = Len(t.data) THEN Fed("Failed", t)
  ELSE IF c # t.data[t.progress + 1] THEN Fed("Failed", t)
  ELSE LET n == t.progress + 1
       IN  Fed(IF n = Len(t.data) THEN "Completed" ELSE "Pending",
               [t EXCEPT !.progress = n])

RECURSIVE feed(_, _)
RECURSIVE FirstOfTry(_, _, _)
\* the loop of FirstOf::feed over the tokenizers from index i on
FirstOfTry(t, c, i) ==
  IF i > Len(t.subs) THEN Fed("Failed", t)
  ELSE LET r == feed(t.subs[i], c)
           t1 == [t EXCEPT !.subs[i] = r.t]
       IN  CASE r.state = "Failed" -> FirstOfTry(t1, c, i + 1)
             [] r.state = "Panicked" -> Fed("Panicked", t1)
             [] OTHER -> Fed(r.state, [t1 EXCEPT !.chosen = i])

\* FirstOf::feed that tries every tokenizer on every character
FirstOfFeedAll(t, c) == FirstOfTry(t, c, 1)

\* FirstOf::feed
FirstOfFeed(t, c) ==
  IF t.chosen # 0
  THEN LET r == feed(t.subs[t.chosen], c)
       IN  Fed(r.state, [t EXCEPT !.subs[t.chosen] = r.t])
  ELSE FirstOfTry(t, c, 1)

RECURSIVE ChainLoop(_, _)
\* the loop of Chain::feed; self.tokenizers[self.progress] panics past the end
ChainLoop(t, c) ==
  IF t.progress >= Len(t.subs) THEN Fed("Panicked", t)
  ELSE LET i == t.progress + 1
           r == feed(t.subs[i], c)
           t1 == [t EXCEPT !.subs[i] = r.t]
           t2 == [t1 EXCEPT !.progress = @ + 1]
       IN  CASE r.state = "Pending" -> Fed("Pending", t1)
             [] r.state = "Panicked" -> Fed("Panicked", t1)
             [] r.state = "Failed" ->
                  IF can_match_empty(t1.subs[i]) THEN ChainLoop(t2, c)
                  ELSE Fed("Failed", t1)
             [] r.state = "Completed" ->
                  Fed(IF t2.progress = Len(t2.subs) \/ the_rest_are_empty(t2)
                      THEN "Completed" ELSE "Pending", t2)

\* Chain::feed
ChainFeed(t, c) ==
  IF t.failed \/ t.progress = Len(t.subs) THEN Fed("Failed", t)
  ELSE ChainLoop(t, c)

\* Tokenizer::feed
feed(t, c) ==
  CASE t.kind = "literal" -> LiteralFeed(t, c)
    [] t.kind = "firstof" -> FirstOfFeed(t, c)
    [] t.kind = "chain" -> ChainFeed(t, c)

RECURSIVE MakeTokenPanics(_)
\* FirstOf::make_token unwraps chosen_tokenizer
MakeTokenPanics(t) ==
  /\ t.kind = "firstof"
  /\ \/ t.chosen = 0
     \/ MakeTokenPanics(t.subs[t.chosen])

RECURSIVE make_token(_, _)
\* Tokenizer::make_token
make_token(t, data) ==
  IF t.kind = "firstof" THEN make_token(t.subs[t.chosen], data)
  ELSE [tag |-> t.tag, contents |-> data]

\* Span
MkSpan(start_line, end_line, start_char, end_char) ==
  [start_line |-> start_line, end_line |-> end_line,
   start_char |-> start_char, end_char |-> end_char]

\* advance, on the end of the span
advance(c, s) ==
  IF c = "\n" THEN [s EXCEPT !.end_line = @ + 1, !.end_char = 0]
  ELSE [s EXCEPT !.end_char = @ + 1]

\* make_error that reports the input from the failing character on
make_errorLate(res, cs, start, at) ==
  [kind |-> "Err", tokens |-> res, rest |-> SubSeq(cs, at + 1, Len(cs))]

\* make_error; at is where the loop stands
make_error(res, cs, start, at) ==
  [kind |-> "Err", tokens |-> res, rest |-> SubSeq(cs, start + 1, Len(cs))]

\* the tokenizers the runs are made with
TEST_OR_ABC == firstof(<<literal("Test", <<"A", "A">>), literal("abc", <<"B", "A">>)>>)

SHORT_LONG == firstof(<<literal("short", <<"A">>), literal("long", <<"A", "B">>)>>)

LATER == firstof(<<literal("b", <<"B">>), literal("aba", <<"A", "B", "A">>)>>)

NESTED == chain("chain", <<chain("front", <<literal("", <<>>)>>), literal("", <<"A">>)>>)

Tokenizers ==
  << literal("simple", <<"A", "B">>),
     literal("one", <<"A">>),
     literal("newline", <<"A", "\n", "B">>),
     literal("empty", <<>>),
     TEST_OR_ABC,
     SHORT_LONG,
     LATER,
     firstof(<<chain("chain", <<literal("", <<"A">>), literal("", <<"B">>)>>),
               literal("a", <<"A">>)>>),
     chain("chain", <<literal("", <<"A">>), literal("", <<"B">>)>>),
     chain("chain", <<literal("", <<>>), literal("", <<"A">>), literal("", <<"B">>)>>),
     chain("chain", <<literal("", <<"A">>), literal("", <<>>), literal("", <<"B">>)>>),
     chain("chain", <<literal("", <<"A">>), literal("", <<"B">>), literal("", <<>>)>>),
     chain("chain", <<literal("", <<>>), literal("", <<>>)>>),
     NESTED >>

TokAlphabet == {"A", "B", "\n"}

\* tokenize up to the loop: the characters are collected, the tokenizer is
\* reset and the counters are zero
TokenizeEnter ==
  /\ tok_pc = "start"
  /\ tok_pc' = "loop"
  /\ tokenizer' = reset(tokenizer)
  /\ tok_progress' = 0
  /\ token_start' = 0
  /\ span' = MkSpan(0, 0, 0, 0)
  /\ result' = <<>>
  /\ last_result' = "Pending"
  /\ UNCHANGED <<parserVars, callVars, setVars, tok_chars, tokenized>>

\* the character of this turn of the loop and what feeding it gives
AtChar == tok_pc = "loop" /\ tok_progress # Len(tok_chars)

ThisChar == tok_chars[tok_progress + 1]

ThisFeed == feed(tokenizer, ThisChar)

\* a turn of the loop whose feed returns Pending
FeedPending ==
  /\ AtChar
  /\ ThisFeed.state = "Pending"
  /\ tokenizer' = ThisFeed.t
  /\ last_result' = "Pending"
  /\ span' = advance(ThisChar, span)
  /\ tok_progress' = tok_progress + 1
  /\ UNCHANGED <<parserVars, callVars, setVars, tok_chars, token_start, result, tokenized, tok_pc>>

\* a turn of the loop whose feed returns Completed: complete makes the token
\* and resets the tokenizer, and the next token starts after this character
FeedCompleted ==
  /\ AtChar
  /\ ThisFeed.state = "Completed"
  /\ ~MakeTokenPanics(ThisFeed.t)
  /\ LET token == make_token(ThisFeed.t, SubSeq(tok_chars, token_start + 1, tok_progress + 1))
         after == advance(ThisChar, span)
     IN  /\ result' = Append(result, [token |-> token, span |-> span])
         /\ span' = [after EXCEPT !.start_line = after.end_line,
                                  !.start_char = after.end_char]
  /\ tokenizer' = reset(ThisFeed.t)
  /\ last_result' = "Completed"
  /\ token_start' = tok_progress + 1
  /\ tok_progress' = tok_progress + 1
  /\ UNCHANGED <<parserVars, callVars, setVars, tok_chars, tokenized, tok_pc>>

\* a turn of the loop whose feed returns Failed: tokenize returns the error
FeedFailed ==
  /\ AtChar
  /\ ThisFeed.state = "Failed"
  /\ tokenizer' = ThisFeed.t
  /\ last_result' = "Failed"
  /\ tokenized' = make_error(result, tok_chars, token_start, tok_progress)
  /\ tok_pc' = "done"
  /\ UNCHANGED <<parserVars, callVars, setVars, tok_chars, tok_progress, token_start, span, result>>

\* a turn of the loop in which feed or make_token panics
FeedPanic ==
  /\ AtChar
  /\ \/ ThisFeed.state = "Panicked"
     \/ ThisFeed.state = "Completed" /\ MakeTokenPanics(ThisFeed.t)
  /\ tokenizer' = ThisFeed.t
  /\ last_result' = "Panicked"
  /\ tokenized' = [kind |-> "Panicked", tokens |-> <<>>, rest |-> <<>>]
  /\ tok_pc' = "done"
  /\ UNCHANGED <<parserVars, callVars, setVars, tok_chars, tok_progress, token_start, span, result>>

\* the end of the input: Ok after a completion, the error otherwise
TokenizeReturn ==
  /\ tok_pc = "loop"
  /\ tok_progress = Len(tok_chars)
  /\ tokenized' = IF last_result = "Completed"
                  THEN [kind |-> "Ok", tokens |-> result, rest |-> <<>>]
                  ELSE make_error(result, tok_chars, token_start, tok_progress)
  /\ tok_pc' = "done"
  /\ UNCHANGED <<parserVars, callVars, setVars, tokenizer, tok_chars, tok_progress, token_start, span,
                 result, last_result>>

TokInit ==
  /\ ParserIdle
  /\ call = NoCall
  /\ returned = NotReturned
  /\ SetIdle
  /\ tokenizer \in {Tokenizers[i] : i \in DOMAIN Tokenizers}
  /\ tok_chars \in Strings(TokAlphabet, MaxLen)
  /\ tok_progress = 0
  /\ token_start = 0
  /\ span = MkSpan(0, 0, 0, 0)
  /\ result = <<>>
  /\ last_result = "Pending"
  /\ tokenized = NotTokenized
  /\ tok_pc = "start"

TokNext ==
  \/ TokenizeEnter
  \/ FeedPending
  \/ FeedCompleted
  \/ FeedFailed
  \/ FeedPanic
  \/ TokenizeReturn

TokSpec == TokInit /\ [][TokNext]_vars

RECURSIVE FirstComplete(_, _, _)
\* the number of characters of s after which t, fed s from character k + 1
\* on, first returns Completed; 0 when it fails or s ends before that
FirstComplete(t, s, k) ==
  IF k = Len(s) THEN 0
  ELSE LET r == feed(t, s[k + 1])
       IN  CASE r.state = "Completed" -> k + 1
             [] r.state = "Pending" -> FirstComplete(r.t, s, k + 1)
             [] OTHER -> 0

RECURSIVE SplitTokens(_, _)
\* s cut into the tokens a freshly reset t completes one after the other,
\* and what is left when no further token completes
SplitTokens(t, s) ==
  LET n == FirstComplete(reset(t), s, 0)
  IN  IF n = 0 THEN [tokens |-> <<>>, rest |-> s]
      ELSE LET more == SplitTokens(t, SubSeq(s, n + 1, Len(s)))
           IN  [tokens |-> <<SubSeq(s, 1, n)>> \o more.tokens, rest |-> more.rest]

Contents(res) == [i \in DOMAIN res |-> res[i].token.contents]

RECURSIVE FirstNotFailing(_, _, _)
FirstNotFailing(t, c, i) ==
  IF i > Len(t.subs) THEN 0
  ELSE IF feed(t.subs[i], c).state # "Failed" THEN i
  ELSE FirstNotFailing(t, c, i + 1)

Answering(t, c) == IF t.chosen # 0 THEN t.chosen ELSE FirstNotFailing(t, c, 1)

\* a character is about to be fed to a FirstOf by the loop of tokenize
FeedsFirstOf ==
  tokenizer.kind = "firstof" /\ tok_pc = "loop" /\ tok_progress # Len(tok_chars)

\* C27: a firstof feeds the first character after a reset to its
\* sub-tokenizers in list order and chooses the first that does not fail;
\* every later character goes to the chosen one only and its result is
\* returned, whatever a later-listed tokenizer would match; the token is made
\* by the chosen tokenizer.
C27_FirstOfCommits ==
  [][FeedsFirstOf =>
       LET c == tok_chars[tok_progress + 1]
           k == Answering(tokenizer, c)
           r == feed(tokenizer.subs[k], c)
       IN  IF k = 0 THEN last_result' = "Failed"
           ELSE /\ last_result' = r.state
                /\ tokenizer.chosen # 0 =>
                     \A j \in DOMAIN tokenizer.subs :
                        j # k => tokenizer'.subs[j] = tokenizer.subs[j]
                /\ r.state = "Pending" =>
                     /\ tokenizer'.chosen = k
                     /\ tokenizer'.subs[k] = r.t
                /\ r.state = "Completed" =>
                     /\ Len(result') = Len(result) + 1
                     /\ result'[Len(result')].token =
                          make_token(r.t, SubSeq(tok_chars, token_start + 1, tok_progress + 1))
    ]_vars

\* the second tokenizer of the list was chosen on the first character and the
\* character after it went to that tokenizer
C27_Witness ==
  /\ tokenizer.kind = "firstof"
  /\ tokenizer.chosen = 2
  /\ tokenizer.subs[2].progress = 2
  /\ tokenizer.subs[1].progress = 0

(***************************************************************************)
(* A chain fed the characters of a string on its own, without the loop of  *)
(* tokenize: no reset is made between the characters, and feeding stops at *)
(* the first Failed or panic.                                              *)
(***************************************************************************)
\* the sub-tokenizers the chains are built of: literals of zero, one and two
\* characters, a chain of the empty literal, a chain ending in it
ChainParts ==
  { literal("", <<>>), literal("", <<"A">>), literal("", <<"B">>),
    literal("", <<"A", "B">>),
    chain("", <<literal("", <<>>)>>),
    chain("", <<literal("", <<"A">>), literal("", <<>>)>>) }

Chains == {chain("chain", ts) : ts \in UNION {[1..k -> ChainParts] : k \in 1..MaxSubs}}

FeedInit ==
  /\ ParserIdle
  /\ call = NoCall
  /\ returned = NotReturned
  /\ SetIdle
  /\ tokenizer \in Chains
  /\ tok_chars \in Strings({"A", "B"}, MaxLen)
  /\ tok_progress = 0
  /\ token_start = 0
  /\ span = MkSpan(0, 0, 0, 0)
  /\ result = <<>>
  /\ last_result = "Pending"
  /\ tokenized = NotTokenized
  /\ tok_pc = "feed"

\* the next character of the string is fed
FeedChar ==
  /\ tok_pc = "feed"
  /\ tok_progress # Len(tok_chars)
  /\ last_result \in {"Pending", "Completed"}
  /\ tokenizer' = ThisFeed.t
  /\ last_result' = ThisFeed.state
  /\ tok_progress' = tok_progress + 1
  /\ UNCHANGED <<parserVars, callVars, setVars, tok_chars, token_start, span, result, tokenized,
                 tok_pc>>

FeedNext == FeedChar

FeedSpec == FeedInit /\ [][FeedNext]_vars

RECURSIVE Matches(_, _)
RECURSIVE SegmentsMatch(_, _, _)
\* s splits into consecutive segments matched by subs[i], subs[i + 1], ...
SegmentsMatch(subs, i, s) ==
  IF i > Len(subs) THEN s = <<>>
  ELSE \E k \in 0..Len(s) :
         /\ Matches(subs[i], SubSeq(s, 1, k))
         /\ SegmentsMatch(subs, i + 1, SubSeq(s, k + 1, Len(s)))

\* the strings a literal or a chain matches
Matches(t, s) ==
  IF t.kind = "literal" THEN s = t.data ELSE SegmentsMatch(t.subs, 1, s)

\* the feeding of the string is over
FeedOver ==
  /\ tok_pc = "feed"
  /\ tok_chars # <<>>
  /\ tok_progress = Len(tok_chars) \/ last_result \in {"Failed", "Panicked"}

\* C28: a chain fed the characters of a string reports Completed on the last
\* character exactly when the string splits into consecutive segments matched
\* by the sub-tokenizers in list order, a sub-tokenizer that can match the
\* empty string taking an empty segment at the front, in the middle or at the
\* end; the failure of a sub-tokenizer that cannot match empty is reported as
\* Failed.
C28_ChainMatchesSegments ==
  FeedOver =>
    /\ (tok_progress = Len(tok_chars) /\ last_result = "Completed")
         <=> Matches(tokenizer, tok_chars)
    /\ last_result = "Failed" => ~Matches(tokenizer, tok_chars)

\* C29: the child created for body position p starts at the node's start
\* plus the leaf counts of the children already chosen; the last child
\* inherits the node's end constraint unchanged, every other child gets "at
\* most end" with the node's own end bound and nothing tighter.
C29_ChildGoals ==
  [][(AtSymbol /\ TopSymbol.t = "Rule" /\ Len(stack') = Len(stack) + 1) =>
       LET child == stack'[Len(stack')].entry
           chosen == Top.it.progress
           leaves == IF chosen = <<>> THEN 0
                     ELSE Len(Leaves(Internal("", [i \in DOMAIN chosen |-> chosen[i].node])))
       IN  /\ child.start = Top.it.start + leaves
           /\ child.end = IF Len(chosen) = Len(TopBody) - 1 THEN Top.it.end
                          ELSE Unknown(Top.it.end.v)
    ]_vars

\* a completion is about to run: the yielded item is complete, or it
\* predicts a nullable name
Completes ==
  /\ pc = "set"
  /\ HasYielded
  /\ \/ ~HasSym(Yielded.rule, Yielded.progress)
     \/ HasNextName(Yielded) /\ rule_is_nullable(grammar, next_name(Yielded))

\* the items of the current set at the moment the completion runs: the
\* stored ones and, after a prediction, the predicted ones
AtThatMoment ==
  IF HasNextName(Yielded)
  THEN StateSetAdd(current_state.items,
                   from_rules(get_rules_by_name(grammar, next_name(Yielded)),
                              current_position))
  ELSE current_state.items

\* the advanced forms of the items of the list that wait for the name
AdvancedOf(items, name) ==
  {[items[b] EXCEPT !.progress = @ + 1] :
     b \in {a \in DOMAIN items : HasNextName(items[a]) /\ next_name(items[a]) = name}}

\* C30: whenever a completion runs while S_i is processed, the list of
\* earlier sets holds exactly S_0..S_{i-1}, all finished; the completion reads
\* S_i itself exactly when the completing item's start is i and the finished
\* S_start otherwise; reading S_i it uses the items present at that moment
\* and appends the advanced items afterwards.
C30_CompletionSource ==
  [][Completes =>
       LET i == current_position
           j == Yielded.start
           source == IF j = i THEN AtThatMoment ELSE parse_state[j + 1].items
           after == parse_state'[Len(parse_state)].items
           appended == {after[k] : k \in (Len(AtThatMoment) + 1)..Len(after)}
       IN  /\ Len(prev_state) = i
           /\ \A k \in 1..i : prev_state[k] = parse_state[k] /\ SetFinished(k)
           /\ j <= i
           /\ IsPrefix(AtThatMoment, after)
           /\ appended = {x \in AdvancedOf(source, Yielded.rule.name) :
                            ~Contains(AtThatMoment, x)}
    ]_vars

\* an empty-span completion has run in the current set and appended the
\* advanced form of an item of that set
C30_Witness ==
  /\ pc = "set"
  /\ \E k \in 1..current_state.next :
        /\ k <= Len(current_state.items)
        /\ is_complete(current_state.items[k])
        /\ current_state.items[k].start = current_position
        /\ \E b \in DOMAIN current_state.items :
              /\ b > k
              /\ current_state.items[b].progress > 0
              /\ SymAt(current_state.items[b].rule, current_state.items[b].progress - 1)
                   = SymRule(current_state.items[k].rule.name)

\* the items handed to Item::parse so far in the current set
Handed == SubSeq(current_state.items, 1, current_state.next)

\* C31: while S_i is built, every item that is ever in S_i is handed to the
\* predict/scan/complete step exactly once, in insertion order: each step
\* takes the item at the cursor, which was not handed before, and moves the
\* cursor by one over a list that only grows; the set is left when the cursor
\* has passed every item; positions are visited in strictly increasing order.
C31_WorklistOnce ==
  [][/\ (pc = "head" /\ pc' = "set") =>
          /\ Len(parse_state') = current_position + 1
          /\ parse_state'[Len(parse_state')].next = 0
          /\ current_position' = current_position
     /\ (pc = "set" /\ HasYielded) =>
          /\ pc' = "set"
          /\ current_position' = current_position
          /\ Len(parse_state') = Len(parse_state)
          /\ parse_state'[Len(parse_state)].next = current_state.next + 1
          /\ IsPrefix(current_state.items, parse_state'[Len(parse_state)].items)
          /\ ~Contains(Handed, Yielded)
     /\ (pc = "set" /\ ~HasYielded) =>
          /\ current_state.next = Len(current_state.items)
          /\ current_position' = current_position + 1
          /\ pc' = "head"
    ]_vars

\* the same with pairwise different rules only
C31_WorklistOnceDistinctRules ==
  [][NoRepeatedRule => 
     /\ (pc = "set" /\ HasYielded) =>
          /\ parse_state'[Len(parse_state)].next = current_state.next + 1
          /\ IsPrefix(current_state.items, parse_state'[Len(parse_state)].items)
          /\ ~Contains(Handed, Yielded)
     /\ (pc = "set" /\ ~HasYielded) =>
          /\ current_state.next = Len(current_state.items)
          /\ current_position' = current_position + 1
    ]_vars

RECURSIVE EmptyIn(_, _)
\* the names that derive the empty string in at most k derivation steps per
\* level: a name is added when one of its rules has a body of names added
\* before (an empty body at the first level)
EmptyIn(rules, k) ==
  IF k = 0 THEN {}
  ELSE LET E == EmptyIn(rules, k - 1)
       IN  {rules[r].name : r \in {q \in DOMAIN rules :
              \A i \in DOMAIN rules[q].body :
                 /\ ~is_terminal(rules[q].body[i])
                 /\ rules[q].body[i].name \in E}}

\* the names with a rule that derives the empty string in finitely many
\* steps (the levels are stable after one level per rule)
DerivesEmpty(rules) == EmptyIn(rules, Len(rules) + 1)

\* C32: a rule name is in the nullable set N of the grammar if and only if
\* some rule with that name can derive the empty string in finitely many
\* derivation steps.
C32_NullableIffDerivesEmpty ==
  (call.fn = "nullable" /\ returned # NotReturned) =>
     returned.value = DerivesEmpty(call.rules)

\* the same, one direction: every name that derives the empty string is in N
C32_DerivesEmptyIsNullable ==
  (call.fn = "nullable" /\ returned # NotReturned) =>
     DerivesEmpty(call.rules) \subseteq returned.value

\* C33: the end bound of a child goal never goes below zero: whenever the
\* number of remaining body symbols is subtracted from a node's end bound,
\* the end bound is at least that number.
C33_EndBoundNotBelowZero ==
  (AtSymbol /\ ~IsLastSymbol) =>
     ~SubOverflows(Top.it.end.v, lowerbound_length(TopRest))

\* the end position e satisfies the end constraint (a negative bound is a
\* wrapped one, above every position)
Satisfies(e, end) == IF end.known THEN e = end.v ELSE end.v < 0 \/ e <= end.v

RECURSIVE GoalItems(_, _, _, _)
\* the completed items of the sets k.. of the chart with the rule name and
\* start of the goal whose end satisfies its constraint, in chart order
GoalItems(k, name, start, end) ==
  IF k > Len(parse_state) THEN <<>>
  ELSE LET fit == SelectSeq(parse_state[k].items,
                            LAMBDA x : /\ x.progress = Len(x.rule.body)
                                       /\ x.rule.name = name
                                       /\ x.start = start
                                       /\ Satisfies(k - 1, end))
       IN  [a \in DOMAIN fit |-> [rule |-> fit[a].rule, end |-> k - 1]]
             \o GoalItems(k + 1, name, start, end)

\* the candidates an iterator has not given up: the current one, then the
\* stack of the others from its top
Remaining(it) == it.current \o [a \in DOMAIN it.candidates |->
                                  it.candidates[Len(it.candidates) + 1 - a]]

\* the root of the tree is built from the rule
UsesRule(tree, rule) ==
  /\ ~tree.leaf
  /\ tree.name = rule.name
  /\ Len(tree.children) = Len(rule.body)
  /\ \A k \in DOMAIN tree.children : ChildMatches(tree.children[k], rule.body[k])

RootItems == GoalItems(1, start_symbol(grammar), 0, Known(Len(input)))

\* the trees yielded so far follow the order of the candidates of the root,
\* and the first of them uses the earliest candidate
TreesInCandidateOrder ==
  /\ trees # <<>> => UsesRule(trees[1], RootItems[1].rule)
  /\ \A t, u \in DOMAIN trees :
        t < u => \E a, b \in DOMAIN RootItems :
                    /\ a <= b
                    /\ UsesRule(trees[t], RootItems[a].rule)
                    /\ UsesRule(trees[u], RootItems[b].rule)

\* the candidates of a new iterator are the items of its goal in chart order
CandidatesOfGoal ==
  /\ (pc = "answered" /\ pc' = "trees") =>
        Remaining(iter') = RootItems
  /\ (AtSymbol /\ TopSymbol.t = "Rule" /\ Len(stack') = Len(stack) + 1) =>
        LET child == stack'[Len(stack')].entry
        IN  Remaining(child) = GoalItems(1, TopSymbol.name, child.start, child.end)

\* an iterator moves to its next candidate only with no decision point left,
\* and never back
CandidatesInTurn ==
  (pc = "running" /\ pc' = "running" /\ Len(stack') = Len(stack)
     /\ stack'[Len(stack)].it.current # Top.it.current) =>
        /\ Top.it.progress = <<>>
        /\ Remaining(stack'[Len(stack)].it) = Tail(Remaining(Top.it))

\* C34: for a goal (name, start, end constraint) the candidates are exactly
\* the completed chart items with that rule name and start whose end
\* satisfies the constraint, tried in chart order (ascending end, then
\* insertion order within a set); all trees of one candidate are yielded
\* before any tree of the next, and the first tree uses the earliest item.
C34_CandidateOrder ==
  [][/\ CandidatesOfGoal
     /\ CandidatesInTurn
     /\ trees' # trees => TreesInCandidateOrder'
    ]_vars

\* the same without the clause on the first tree
C34_CandidateOrderOfTried ==
  [][/\ CandidatesOfGoal
     /\ CandidatesInTurn
     /\ trees' # trees =>
          \A t, u \in DOMAIN trees' :
             t < u => \E a, b \in DOMAIN RootItems :
                         /\ a <= b
                         /\ UsesRule(trees'[t], RootItems[a].rule)
                         /\ UsesRule(trees'[u], RootItems[b].rule)
    ]_vars

\* make_items and make_item of the tests of build_parse_state
make_items(name, start, progress) ==
  LET rules == SelectSeq(ARITH, LAMBDA r : r.name = name)
  IN  [a \in DOMAIN rules |-> [rule |-> rules[a], start |-> start, progress |-> progress]]

make_item(idx, start, progress) ==
  <<[rule |-> ARITH[idx + 1], start |-> start, progress |-> progress]>>

\* the four sets the test success asserts for Arith on "1+2"
ArithSets ==
  << make_items("Sum", 0, 0) \o make_items("Product", 0, 0)
       \o make_items("Factor", 0, 0) \o make_items("Number", 0, 0),
     make_items("Number", 0, 1) \o make_items("Number", 1, 0)
       \o make_item(5, 0, 1) \o make_item(3, 0, 1) \o make_item(1, 0, 1)
       \o make_item(2, 0, 1) \o make_item(0, 0, 1),
     make_item(0, 0, 2) \o make_items("Product", 2, 0)
       \o make_items("Factor", 2, 0) \o make_items("Number", 2, 0),
     make_items("Number", 2, 1) \o make_items("Number", 3, 0)
       \o make_item(5, 2, 1) \o make_item(3, 2, 1) \o make_item(0, 0, 3)
       \o make_item(2, 2, 1) \o make_item(0, 0, 1) >>

\* the rules called name, by ascending index in the rule list
Declared(name) ==
  LET idx == {r \in DOMAIN grammar : grammar[r].name = name}
      RECURSIVE Upto(_)
      Upto(k) == IF k = 0 THEN <<>>
                 ELSE IF k \in idx THEN Append(Upto(k - 1), grammar[k]) ELSE Upto(k - 1)
  IN  Upto(Len(grammar))

\* s without the elements of old and without repetitions, in the order of s
RECURSIVE Fresh(_, _)
Fresh(s, old) ==
  IF s = <<>> THEN <<>>
  ELSE IF \E a \in DOMAIN old : old[a] = Head(s) THEN Fresh(Tail(s), old)
  ELSE <<Head(s)>> \o Fresh(Tail(s), Append(old, Head(s)))

\* the looked-up rules are all rules of the name in declared order
LookupInDeclaredOrder ==
  \A r \in DOMAIN grammar :
     get_rules_by_name(grammar, grammar[r].name) = Declared(grammar[r].name)

\* a prediction appends the items of the rules of the name in declared
\* order, then (for a nullable name) what its completion appends; a
\* completion appends the advanced items in the stored order of its source
AppendsInOrder ==
  (pc = "set" /\ HasYielded /\ ~(HasSym(Yielded.rule, Yielded.progress) /\ is_terminal(SymAt(Yielded.rule, Yielded.progress)))) =>
     LET old == current_state.items
         new == parse_state'[Len(parse_state)].items
         i == current_position
         predicted == IF HasNextName(Yielded)
                      THEN LET rs == Declared(next_name(Yielded))
                           IN  [a \in DOMAIN rs |-> [rule |-> rs[a], start |-> i, progress |-> 0]]
                      ELSE <<>>
         mid == old \o Fresh(predicted, old)
         source == IF Yielded.start = i THEN mid ELSE parse_state[Yielded.start + 1].items
         waiting == SelectSeq(source, LAMBDA x : /\ x.progress < Len(x.rule.body)
                                                 /\ x.rule.body[x.progress + 1]
                                                      = SymRule(Yielded.rule.name))
         moved == [a \in DOMAIN waiting |-> [waiting[a] EXCEPT !.progress = @ + 1]]
         completes == \/ ~HasNextName(Yielded)
                      \/ rule_is_nullable(grammar, next_name(Yielded))
     IN  new = IF completes THEN mid \o Fresh(moved, mid) ELSE mid

\* C35: declared order is preserved: a lookup returns all rules of the name
\* in declared order, a prediction appends the items of those rules in that
\* order, a completion appends the advanced items in the stored order of
\* the source set, and for Arith on "1+2" the four sets are the sequences
\* the test asserts.
C35_DeclaredOrder ==
  [][/\ LookupInDeclaredOrder
     /\ AppendsInOrder
     /\ (grammar = ARITH /\ input = <<"1", "+", "2">> /\ pc' = "built") =>
           /\ Len(parse_state') = 4
           /\ \A k \in 1..4 : /\ parse_state'[k].items = ArithSets[k]
                              /\ parse_state'[k].next = Len(ArithSets[k]) + 1
    ]_vars

\* the chart of Arith on "1+2" is built
C35_Witness ==
  /\ grammar = ARITH
  /\ input = <<"1", "+", "2">>
  /\ pc = "built"
  /\ Len(parse_state) = 4
  /\ parse_state[2].items = ArithSets[2]

\* the item of the current set under the cursor is at a terminal
AtScan == pc = "set" /\ HasYielded /\ HasSym(Yielded.rule, Yielded.progress)
            /\ SymAt(Yielded.rule, Yielded.progress).t # "Rule"

\* the item of the current set under the cursor is at a name or at its end
AtPredictOrComplete == pc = "set" /\ HasYielded /\ ~AtScan

\* the item lists of the chart, without the cursors
ItemLists(state) == [k \in DOMAIN state |-> state[k].items]

\* the items of the current set the cursor has passed whose terminal matches
\* the character at the current position, each moved one place, in the
\* order the cursor passed them
ScannedInTurn ==
  LET passed == SubSeq(current_state.items, 1, current_state.next)
      hit == SelectSeq(passed, LAMBDA x :
                 /\ x.progress < Len(x.rule.body)
                 /\ x.rule.body[x.progress + 1].t # "Rule"
                 /\ current_position < Len(input)
                 /\ LET sym == x.rule.body[x.progress + 1]
                        ch == input[current_position + 1]
                    IN  IF sym.t = "Literal" THEN ch = sym.c ELSE ch \in sym.cs)
  IN  [a \in DOMAIN hit |-> [hit[a] EXCEPT !.progress = @ + 1]]

\* C36: a scan step leaves S_i unchanged whether it matches or not; a
\* predict or complete step appends only to S_i and returns nothing for the
\* next set; S_{i+1} is created only after the cursor of S_i is exhausted,
\* only when at least one scan matched, and holds the scan outputs in the
\* order their source items were processed.
C36_ScanFrame ==
  [][/\ AtScan => ItemLists(parse_state') = ItemLists(parse_state)
     /\ AtPredictOrComplete =>
          /\ to_add' = to_add
          /\ Len(parse_state') = Len(parse_state)
          /\ prev_state' = prev_state
          /\ IsPrefix(current_state.items, current_state'.items)
     /\ (pc = "set" /\ pc' = "set") => ScannedInTurn' = to_add'
     /\ (pc \in {"head", "set"} /\ Len(parse_state') # Len(parse_state)) =>
          /\ pc = "set"
          /\ ~HasYielded
          /\ ScannedInTurn # <<>>
          /\ Len(parse_state') = Len(parse_state) + 1
          /\ current_state' = [items |-> ScannedInTurn, next |-> 0]
          /\ ItemLists(prev_state') = ItemLists(parse_state)
     /\ (pc = "set" /\ ~HasYielded /\ ScannedInTurn = <<>>) =>
          ItemLists(parse_state') = ItemLists(parse_state)
    ]_vars

\* a set made of two scan outputs has just been created, after a scan that
\* did not match
C36_Witness ==
  /\ pc = "head"
  /\ Len(parse_state) >= 2
  /\ current_state.next = 0
  /\ Len(current_state.items) >= 2
  /\ \E a \in DOMAIN parse_state[Len(parse_state) - 1].items :
        LET x == parse_state[Len(parse_state) - 1].items[a]
        IN  /\ HasSym(x.rule, x.progress)
            /\ is_terminal(SymAt(x.rule, x.progress))
            /\ ~Contains(current_state.items, advanced(x))

(***************************************************************************)
(* A state set used on its own (src/state/stateset.rs): it is built by         *)
(* new or by exhausted from a list of items, and then next and add are     *)
(* called on it in any order.                                              *)
(***************************************************************************)
MaxAdd == 2

MaxNext == 5

\* StateSet::exhausted
exhausted(items) == [items |-> items, next |-> Len(items) + 1]

\* StateSet::next: the item returned, an Option as a sequence of at most
\* one element
StateSetNext(set) ==
  IF set.next < Len(set.items) THEN <<set.items[set.next + 1]>> ELSE <<>>

\* the items of the test next of stateset.rs
SetItems ==
  {MkItem(MkRule(n, <<SymLiteral(n)>>), 0, 0) : n \in {"Rule1", "Rule2", "Rule3"}}

SetInit ==
  /\ ParserIdle
  /\ call = NoCall
  /\ returned = NotReturned
  /\ TokIdle
  /\ \E items \in Strings(SetItems, MaxAdd) :
        state_set \in {StateSetNew(items), exhausted(items)}
  /\ new_items = <<>>
  /\ got = <<>>
  /\ was_none = FALSE

\* a call of StateSet::next
CallStateSetNext ==
  /\ state_set.next < MaxNext
  /\ got' = StateSetNext(state_set)
  /\ was_none' = (was_none \/ got' = <<>>)
  /\ state_set' = [state_set EXCEPT !.next = @ + 1]
  /\ UNCHANGED <<parserVars, callVars, tokVars, new_items>>

\* a call of StateSet::add
CallStateSetAdd ==
  /\ \E new \in Strings(SetItems, MaxAdd) :
        /\ new_items' = new
        /\ state_set' = [state_set EXCEPT !.items = StateSetAdd(@, new)]
  /\ UNCHANGED <<parserVars, callVars, tokVars, got, was_none>>

SetNext ==
  \/ CallStateSetNext
  \/ CallStateSetAdd

SetSpec == SetInit /\ [][SetNext]_vars

\* C37: single-pass cursor: once StateSet::next has returned None for a
\* set, every later call of next on that set returns None, whatever calls
\* of add happen in between.
C37_CursorStaysExhausted ==
  [][(was_none /\ state_set'.next # state_set.next) => got' = <<>>]_vars

\* in the parser no item is added to a set after its cursor returned None:
\* the sets before the current one have cursors past their end and keep
\* their item lists
C37_NoAddAfterNoneInParser ==
  [][(pc = "head" \/ pc = "set") =>
       \A k \in DOMAIN parse_state :
          parse_state[k].next > Len(parse_state[k].items) =>
             /\ k \in DOMAIN parse_state'
             /\ parse_state'[k] = parse_state[k]
    ]_vars

\* the step is a call of StateSet::add
IsAdd == state_set'.next = state_set.next

\* C38: StateSet::add appends, in argument order, exactly those given items
\* that are not already in the set (including not equal to an item appended
\* earlier in the same call), leaves the existing items, their order and
\* the cursor unchanged, and is idempotent: adding items that are all
\* present changes nothing.
C38_AddAppendsNew ==
  [][IsAdd =>
       /\ state_set'.items = state_set.items \o Fresh(new_items', state_set.items)
       /\ IsPrefix(state_set.items, state_set'.items)
       /\ got' = got
       /\ (\A a \in DOMAIN new_items' : Contains(state_set.items, new_items'[a]))
             => state_set' = state_set
       /\ StateSetAdd(state_set'.items, new_items') = state_set'.items
    ]_vars

\* an item given twice in one call was appended once, behind the items the
\* set had, and the cursor has moved before
C38_Witness ==
  /\ Len(new_items) = 2
  /\ new_items[1] = new_items[2]
  /\ Len(state_set.items) >= 2
  /\ state_set.items[Len(state_set.items)] = new_items[1]
  /\ \A a \in 1..(Len(state_set.items) - 1) : state_set.items[a] # new_items[1]
  /\ state_set.next > 0

(***************************************************************************)
(* A chain fed the characters of a string on its own, where feeding goes   *)
(* on after a Failed and the chain may be reset after one.                 *)
(***************************************************************************)
\* the next character of the string is fed to a chain that has failed
FeedAfterFailed ==
  /\ tok_pc = "feed"
  /\ tok_progress # Len(tok_chars)
  /\ last_result = "Failed"
  /\ tokenizer' = ThisFeed.t
  /\ last_result' = ThisFeed.state
  /\ tok_progress' = tok_progress + 1
  /\ UNCHANGED <<parserVars, callVars, setVars, tok_chars, token_start, span, result, tokenized,
                 tok_pc>>

\* Chain::reset is called on a chain that has failed
ResetAfterFailed ==
  /\ tok_pc = "feed"
  /\ last_result = "Failed"
  /\ tokenizer' = reset(tokenizer)
  /\ last_result' = "Pending"
  /\ UNCHANGED <<parserVars, callVars, setVars, tok_chars, tok_progress, token_start, span,
                 result, tokenized, tok_pc>>

RefeedNext ==
  \/ FeedChar
  \/ FeedAfterFailed
  \/ ResetAfterFailed

RefeedSpec == FeedInit /\ [][RefeedNext]_vars

\* C39: failure of a chain is sticky: once Chain::feed has returned Failed,
\* every later feed returns Failed until reset is called, whatever
\* characters are fed; a chain that failed in the middle of a sub-tokenizer
\* can never later report Pending or Completed for the same token.
C39_FailureSticky ==
  [][(last_result = "Failed" /\ tok_progress' # tok_progress) =>
        last_result' = "Failed"]_vars

\* the field failed of a chain is never set
C39_FailedNeverSet == ~tokenizer.failed

\* C40: Chain::feed never reads past the end of its sub-tokenizer list:
\* when the current sub-tokenizer fails on a character and is skipped
\* because it can match the empty string, and no sub-tokenizer is left, feed
\* returns Failed; this holds in particular for a chain made only of
\* sub-tokenizers that match the empty string when it is fed any character.
C40_FeedStaysInList ==
  /\ last_result # "Panicked"
  /\ (tok_progress >= 1 /\ can_match_empty(tokenizer)) => last_result = "Failed"

====
